---- MODULE Spec2Model ----
(***************************************************************************)
(* A model of bundle_tool's macOS bundler (src/src/macos/bundle.rs):       *)
(* SelfContained::perform copies an application bundle, walks the link     *)
(* dependencies of every binary it found, copies each local dependency     *)
(* into Contents/Frameworks and issues install_name_tool edits.            *)
(*                                                                         *)
(* A path is the sequence of its components below the filesystem root, a   *)
(* ModulePath (a link reference string) is a record [abs, comps]; the      *)
(* filesystem is a function from the real (symlink-free) path of every     *)
(* existing entry to its node.                                             *)
(***************************************************************************)
EXTENDS Integers, Sequences, FiniteSets, TLC

\* ------------------------------------------------------------------ bounds
\* symbolic links followed while resolving one path before ELOOP
MaxLinkHops == 3
\* most components of a path handed to find_dependency_root on its own
MaxRootDepth == 4
\* longest dependency list of the main executable in the enumerated bundles
MaxDeps == 2
\* the roots a PathResolver is configured with, at most
MaxRoots == 3
\* the length in bytes of the longest file classified on its own
MaxFileLen == 8
\* the polls of notarize_wait that are counted
MaxAttempts == 6
\* seconds between two polls of notarize_wait
PollInterval == 20

\* ------------------------------------------------------------ sequences
Front(s) == SubSeq(s, 1, Len(s) - 1)
Last(s) == s[Len(s)]
Range(s) == {s[i] : i \in 1..Len(s)}
IsPrefix(p, s) == Len(p) <= Len(s) /\ SubSeq(s, 1, Len(p)) = p

NoRep(s) == \A i, j \in 1..Len(s) : i # j => s[i] # s[j]

RECURSIVE SeqsNoRep(_, _)
\* the sequences without repetition of at most n elements of S
SeqsNoRep(S, n) ==
    IF n = 0 THEN {<<>>}
    ELSE LET shorter == SeqsNoRep(S, n - 1)
             longer == {Append(s, x) : s \in shorter, x \in S}
         IN  shorter \cup {t \in longer : NoRep(t)}

\* ---------------------------------------------------------------- paths
\* the result of a failed path operation (no path has this component)
NoPath == <<"<none>">>
\* Option::None of Path::file_name
NoName == "<none>"

\* Path::file_name: None for the root and for a path ending in ".."
file_name(p) == IF p = <<>> \/ Last(p) = ".." THEN NoName ELSE Last(p)
\* Path::parent: None for the root
parent(p) == IF p = <<>> THEN NoPath ELSE Front(p)
\* Path::join with a relative path
join(p, rel) == p \o rel
\* Path::starts_with: whole components
starts_with(p, base) == IsPrefix(base, p)
\* str::ends_with(".framework") on a component name
EndsWithFramework(name) ==
    name \in {"X.framework", "Y.framework", "A.framework", ".framework"}

RECURSIVE CommonPrefixLen(_, _)
CommonPrefixLen(a, b) ==
    IF a = <<>> \/ b = <<>> \/ Head(a) # Head(b) THEN 0
    ELSE 1 + CommonPrefixLen(Tail(a), Tail(b))

\* pathdiff::diff_paths(path, base) for two absolute paths: drop the common
\* prefix, one ".." per remaining component of base, then the rest of path
\* (None when base goes up at the point where the two part)
diff_paths(path, base) ==
    LET n == CommonPrefixLen(path, base)
        restP == SubSeq(path, n + 1, Len(path))
        restB == SubSeq(base, n + 1, Len(base))
    IN  IF restB # <<>> /\ restP # <<>> /\ Head(restB) = ".." THEN NoPath
        ELSE [i \in 1..Len(restB) |-> ".."] \o restP

\* ----------------------------------------------------------- filesystem
DirNode == [kind |-> "dir"]
LinkNode(isAbs, comps) == [kind |-> "link", abs |-> isAbs, text |-> comps]
\* a regular file: its length, its first min(4, length) bytes, the rest of
\* its content, and what otool -L reports for it (install identity of a
\* library as a sequence of zero or one ModulePath, then the dependencies)
FileNode(size, head, body, id, deps) ==
    [kind |-> "file", size |-> size, head |-> head, body |-> body,
     id |-> id, deps |-> deps]

RECURSIVE Walk(_, _, _, _)
\* resolve the components rest from the real directory cur, following links
Walk(f, cur, rest, fuel) ==
    IF rest = <<>> THEN cur
    ELSE IF f[cur].kind # "dir" THEN NoPath
    ELSE IF Head(rest) = ".."
         THEN Walk(f, IF cur = <<>> THEN <<>> ELSE Front(cur), Tail(rest), fuel)
    ELSE IF Append(cur, Head(rest)) \notin DOMAIN f THEN NoPath
    ELSE IF f[Append(cur, Head(rest))].kind = "link"
         THEN IF fuel = 0 THEN NoPath
              ELSE Walk(f, IF f[Append(cur, Head(rest))].abs THEN <<>> ELSE cur,
                        f[Append(cur, Head(rest))].text \o Tail(rest), fuel - 1)
    ELSE Walk(f, Append(cur, Head(rest)), Tail(rest), fuel)

\* Path::canonicalize (NoPath: the call fails)
canonicalize(f, p) == Walk(f, <<>>, p, MaxLinkHops)
\* the kind of the node at a real path
KindAt(f, c) == IF c = NoPath THEN "none" ELSE f[c].kind
\* Path::exists, Path::is_dir, Path::is_file: all follow symbolic links
exists(f, p) == canonicalize(f, p) # NoPath
is_dir(f, p) == KindAt(f, canonicalize(f, p)) = "dir"
is_file(f, p) == KindAt(f, canonicalize(f, p)) = "file"

\* the entry name of the real directory d
ChildOf(f, d, name) == IF KindAt(f, d) # "dir" THEN NoPath ELSE Append(d, name)
\* where the entry named by p lives: its parent resolved, its name kept
EntryPath(f, p) ==
    IF p = <<>> THEN <<>>
    ELSE IF Last(p) = ".." THEN canonicalize(f, p)
    ELSE ChildOf(f, canonicalize(f, Front(p)), Last(p))
\* an entry is at the real path e
InFs(f, e) == e # NoPath /\ e \in DOMAIN f
\* Path::symlink_metadata succeeds
lexists(f, p) == InFs(f, EntryPath(f, p))
\* the names read_dir yields for the directory d (a real path)
Children(f, d) == {Last(q) : q \in {r \in DOMAIN f : r # <<>> /\ Front(r) = d}}
\* the real paths of the tree rooted at the real path d
Subtree(f, d) == {q \in DOMAIN f : IsPrefix(d, q)}

\* the filesystem with node n at the real path p
Put(f, p, n) == [q \in DOMAIN f \cup {p} |-> IF q = p THEN n ELSE f[q]]
\* the filesystem without the tree at the real path p
Prune(f, p) == [q \in DOMAIN f \ Subtree(f, p) |-> f[q]]

\* ------------------------------------------------------ std::fs operations
\* every operation yields [ok, fs]: whether it succeeded and the filesystem
\* it leaves
Ok(f) == [ok |-> TRUE, fs |-> f]
Failed(f) == [ok |-> FALSE, fs |-> f]

\* fs::create_dir: the parent must be a directory, the entry must not exist
create_dir_at(f, e) ==
    IF e = NoPath \/ e \in DOMAIN f THEN Failed(f) ELSE Ok(Put(f, e, DirNode))
create_dir(f, p) == create_dir_at(f, EntryPath(f, p))

\* the last step of create_dir_all, once the ancestors are there
create_dir_in(r, p) == IF r.ok THEN create_dir(r.fs, p) ELSE r

RECURSIVE create_dir_all(_, _)
\* fs::create_dir_all: creates the missing ancestors too, accepts a directory
create_dir_all(f, p) ==
    IF is_dir(f, p) THEN Ok(f)
    ELSE IF p = <<>> \/ exists(f, p) THEN Failed(f)
    ELSE create_dir_in(create_dir_all(f, Front(p)), p)

\* std::os::unix::fs::symlink(link, p)
symlink_at(f, link, e) ==
    IF e = NoPath \/ e \in DOMAIN f THEN Failed(f)
    ELSE Ok(Put(f, e, LinkNode(link.abs, link.text)))
symlink(f, link, p) == symlink_at(f, link, EntryPath(f, p))

\* fs::remove_file: unlinks a file or a symbolic link
remove_file_at(f, e) ==
    IF ~InFs(f, e) \/ e = <<>> THEN Failed(f)
    ELSE IF f[e].kind = "dir" THEN Failed(f)
    ELSE Ok([q \in DOMAIN f \ {e} |-> f[q]])
remove_file(f, p) == remove_file_at(f, EntryPath(f, p))

\* fs::remove_dir_all: removes a directory with all it holds (a symbolic link
\* is unlinked, not followed)
remove_dir_all_at(f, e) ==
    IF ~InFs(f, e) \/ e = <<>> THEN Failed(f)
    ELSE IF f[e].kind = "file" THEN Failed(f)
    ELSE IF f[e].kind = "link" THEN Ok([q \in DOMAIN f \ {e} |-> f[q]])
    ELSE Ok(Prune(f, e))
remove_dir_all(f, p) == remove_dir_all_at(f, EntryPath(f, p))

\* where fs::copy writes: through a symbolic link that is there already
CopyDestAt(f, dest, e) == IF InFs(f, e) THEN canonicalize(f, dest) ELSE e
fs_copy_to(f, s, d) ==
    IF s = NoPath \/ d = NoPath THEN Failed(f)
    ELSE IF f[s].kind # "file" THEN Failed(f)
    ELSE IF d \in DOMAIN f /\ f[d].kind # "file" THEN Failed(f)
    ELSE Ok(Put(f, d, f[s]))
\* fs::copy(src, dest): both ends follow symbolic links, an existing file is
\* overwritten
fs_copy(f, src, dest) ==
    fs_copy_to(f, canonicalize(f, src), CopyDestAt(f, dest, EntryPath(f, dest)))

RECURSIVE copy(_, _, _)
RECURSIVE copy_dir_entries(_, _, _, _)

\* copy_dir_entry as it would be without the test for a symbolic link: what
\* a link resolves to is copied in its place
copy_dir_entry_following(f, node, from, to) == copy(f, from, to)

\* copy_dir, lines 76-81: a symbolic link is made anew, anything else copied
copy_dir_entry(f, node, from, to) ==
    IF node.kind = "link" THEN symlink(f, node, to) ELSE copy(f, from, to)

\* copy_dir, line 72: the loop goes on unless the entry failed
copy_dir_rest(r, src, dest, todo) ==
    IF r.ok THEN copy_dir_entries(r.fs, src, dest, todo) ELSE r

\* copy_dir, lines 72-82: the entry name is copied, then the others
copy_dir_from(f, src, dest, todo, name) ==
    copy_dir_rest(copy_dir_entry(f, f[EntryPath(f, Append(src, name))],
                                 Append(src, name), Append(dest, name)),
                  src, dest, todo \ {name})

\* the loop of copy_dir over the entries not yet copied
copy_dir_entries(f, src, dest, todo) ==
    IF todo = {} THEN Ok(f)
    ELSE copy_dir_from(f, src, dest, todo, CHOOSE n \in todo : TRUE)

\* copy_dir, line 71: the destination is created, it must not exist
copy_dir_into(r, src, dest) ==
    IF ~r.ok THEN r
    ELSE IF ~is_dir(r.fs, src) THEN Failed(r.fs)
    ELSE copy_dir_entries(r.fs, src, dest, Children(r.fs, canonicalize(r.fs, src)))

\* utils::copy_dir: "Copies source directory to destination, preserving
\* symlinks"
copy_dir(f, src, dest) == copy_dir_into(create_dir(f, dest), src, dest)

\* utils::copy
copy(f, src, dest) ==
    IF is_dir(f, src) THEN copy_dir(f, src, dest) ELSE fs_copy(f, src, dest)

\* ------------------------------------------------------------ ModulePath
\* the reference string "/a/b" and the reference string "@rpath/a/b"
AbsRef(comps) == [abs |-> TRUE, comps |-> comps]
RpathRef(comps) == [abs |-> FALSE, comps |-> <<"@rpath">> \o comps]

\* is_system as it would be without the "/lib/" prefix
is_system_without_lib(m) ==
    m.abs /\ Len(m.comps) >= 2 /\ m.comps[1] \in {"usr", "System"}

\* ModulePath::is_system: the string starts with "/usr/", "/lib/" or
\* "/System/"
is_system(m) ==
    m.abs /\ Len(m.comps) >= 2 /\ m.comps[1] \in {"usr", "lib", "System"}

RECURSIVE ReplaceRpath(_, _)
\* str::replace(&path.0, "@rpath", rpath): every occurrence is replaced
ReplaceRpath(comps, rpath) ==
    IF comps = <<>> THEN <<>>
    ELSE (IF Head(comps) = "@rpath" THEN rpath ELSE <<Head(comps)>>)
             \o ReplaceRpath(Tail(comps), rpath)

RECURSIVE resolve_rpaths_last(_, _, _)
\* resolve_rpaths as it would be if a later root that yields an existing
\* path were preferred to an earlier one
resolve_rpaths_last(f, rpaths, m) ==
    IF rpaths = <<>> THEN NoPath
    ELSE LET replaced == ReplaceRpath(m.comps, Head(rpaths))
             absolute == m.abs \/ (m.comps # <<>> /\ Head(m.comps) = "@rpath")
             later == resolve_rpaths_last(f, Tail(rpaths), m)
         IN  IF later # NoPath THEN later
             ELSE IF absolute /\ exists(f, replaced) THEN replaced
             ELSE NoPath

RECURSIVE resolve_rpaths(_, _, _)
\* the loop of PathResolver::resolve over the configured roots, in order. A
\* reference that stays relative names nothing: the working directory holds
\* no entry of the model.
resolve_rpaths(f, rpaths, m) ==
    IF rpaths = <<>> THEN NoPath
    ELSE LET replaced == ReplaceRpath(m.comps, Head(rpaths))
             absolute == m.abs \/ (m.comps # <<>> /\ Head(m.comps) = "@rpath")
         IN  IF absolute /\ exists(f, replaced) THEN replaced
             ELSE resolve_rpaths(f, Tail(rpaths), m)

\* PathResolver::resolve (NoPath: ToolError::PathResolve)
resolve(f, rpaths, m) ==
    IF m.abs /\ exists(f, m.comps) THEN m.comps ELSE resolve_rpaths(f, rpaths, m)

\* the process aborts: Option::unwrap on None
Panic == <<"<panic>">>

\* find_dependency_root, with the unwrap of every file_name it takes
find_dependency_root(path) ==
    IF parent(path) = NoPath THEN path
    ELSE LET p1 == parent(path) IN
      IF file_name(p1) = NoName THEN Panic
      ELSE IF EndsWithFramework(file_name(p1)) THEN p1
      ELSE IF parent(p1) = NoPath THEN path
      ELSE LET p2 == parent(p1) IN
        IF file_name(p2) = NoName THEN Panic
        ELSE IF file_name(p2) # "Versions" THEN path
        ELSE IF parent(p2) = NoPath THEN path
        ELSE LET p3 == parent(p2) IN
          IF file_name(p3) = NoName THEN Panic
          ELSE IF EndsWithFramework(file_name(p3)) THEN p3
          ELSE path

\* utils::diff_files: the two files read to their end hold the same bytes
diff_files(n1, n2) ==
    n1.size = n2.size /\ n1.head = n2.head /\ n1.body = n2.body
        /\ n1.id = n2.id /\ n1.deps = n2.deps

\* same_nodes as it would be if two files of one length were taken for the
\* same without reading them
same_nodes_by_length(n1, n2) ==
    IF n1.kind # "file" \/ n2.kind # "file" THEN [ok |-> TRUE, same |-> FALSE]
    ELSE [ok |-> TRUE, same |-> n1.size = n2.size]

\* utils::is_same, lines 61-66, on the two files' metadata and content
same_nodes(n1, n2) ==
    IF n1.kind # "file" \/ n2.kind # "file" THEN [ok |-> TRUE, same |-> FALSE]
    ELSE IF n1.size # n2.size THEN [ok |-> TRUE, same |-> FALSE]
    ELSE [ok |-> TRUE, same |-> diff_files(n1, n2)]

\* utils::is_same: [ok, same]; metadata and open follow symbolic links
is_same(f, p1, p2) ==
    IF ~exists(f, p1) \/ ~exists(f, p2) THEN [ok |-> FALSE, same |-> FALSE]
    ELSE same_nodes(f[canonicalize(f, p1)], f[canonicalize(f, p2)])

MAGIC_FAT == <<202, 254, 186, 190>>
CIGAM_FAT == <<190, 186, 254, 202>>
MAGIC_64 == <<254, 237, 250, 207>>
CIGAM_64 == <<207, 250, 237, 254>>

\* macos::utils::is_executable_binary on an existing regular file
is_executable_binary(n) ==
    IF n.size > 4
    THEN Len(n.head) = 4 /\ n.head \in {MAGIC_FAT, CIGAM_FAT, MAGIC_64, CIGAM_64}
    ELSE FALSE

\* --------------------------------------------------------------- otool
\* a line of otool -L: the reference and whether annotations follow it
\* after a space ("<ref> (compatibility version ...)")
Line(m, annotated) == [ref |-> m, annotated |-> annotated]

\* the lines otool -L prints after the header for the file n
otool_lines(n) ==
    IF n.kind = "file" /\ is_executable_binary(n)
    THEN [i \in 1..Len(n.id \o n.deps) |-> Line((n.id \o n.deps)[i], TRUE)]
    ELSE <<>>

\* what `otool -L path` prints: the header "path:", and for a linked binary
\* its install identity (a library's) and its dependencies
otool(f, path) ==
    <<Line(AbsRef(path), FALSE)>> \o otool_lines(f[canonicalize(f, path)])

\* extract_module_path (ok = FALSE: "Malformed otool -L output")
extract_module_path(line) == [ok |-> line.annotated, ref |-> line.ref]

\* find_module_paths: the first line is dropped, the rest parsed
find_module_paths(lines) ==
    LET rest == Tail(lines)
    IN  [ok |-> \A i \in 1..Len(rest) : extract_module_path(rest[i]).ok,
         paths |-> [i \in 1..Len(rest) |-> extract_module_path(rest[i]).ref]]

\* load_library: the first path is the install name
load_library(lines) ==
    LET r == find_module_paths(lines)
    IN  IF ~r.ok \/ r.paths = <<>>
        THEN [ok |-> FALSE, install_name |-> AbsRef(<<>>), dependencies |-> <<>>]
        ELSE [ok |-> TRUE, install_name |-> Head(r.paths),
              dependencies |-> Tail(r.paths)]

\* load_executable: every path is a dependency
load_executable(lines) ==
    LET r == find_module_paths(lines)
    IN  IF ~r.ok \/ r.paths = <<>>
        THEN [ok |-> FALSE, dependencies |-> <<>>]
        ELSE [ok |-> TRUE, dependencies |-> r.paths]

\* ------------------------------------------------------------ the inputs
\* references of the enumerated binaries
sysU == AbsRef(<<"usr", "lib", "libSystem.dylib">>)
sysS == AbsRef(<<"System", "Library", "Cocoa">>)
sysL == AbsRef(<<"lib", "libc.dylib">>)
absA == AbsRef(<<"opt", "lib", "libA.dylib">>)
absA2 == AbsRef(<<"opt2", "lib", "libA.dylib">>)
absB == AbsRef(<<"opt", "lib", "libB.dylib">>)
fwV == AbsRef(<<"opt", "X.framework", "Versions", "A", "X">>)
fwT == AbsRef(<<"opt", "X.framework", "X">>)
absM == AbsRef(<<"opt", "lib", "libMissing.dylib">>)
rpR == RpathRef(<<"libR.dylib">>)
rpA == RpathRef(<<"libA.dylib">>)

SourcePath == <<"src", "My.app">>
OutDir == <<"out">>
MacOS == SourcePath \o <<"Contents", "MacOS">>
Resources == SourcePath \o <<"Contents", "Resources">>

DataFile(body) == FileNode(3, <<1, 2, 3>>, body, <<>>, <<>>)
Binary(head, body, id, deps) == FileNode(8, head, body, id, deps)

\* the second copy of libA.dylib, under /opt2: the same bytes, other bytes
\* of the same length, or another length
LibA2(w) ==
    CASE w.a2 = "same" -> Binary(CIGAM_64, 5, <<w.idA>>, w.la)
      [] w.a2 = "body" -> Binary(CIGAM_64, 6, <<w.idA>>, w.la)
      [] OTHER -> FileNode(9, CIGAM_64, 5, <<w.idA>>, w.la)

\* what the symbolic link Contents/Resources/lnk of the bundle says
LinkText(l) ==
    CASE l = "sibling" -> LinkNode(FALSE, <<"data">>)
      [] l = "exe" -> LinkNode(FALSE, <<"..", "MacOS", "MyApp">>)
      [] l = "skipped" -> LinkNode(FALSE, <<"..", "Frameworks", "Old.dylib">>)
      [] l = "absinside" -> LinkNode(TRUE, Resources \o <<"data">>)
      [] l = "absskipped" ->
            LinkNode(TRUE, SourcePath \o <<"Contents", "Frameworks", "Old.dylib">>)
      [] l = "extfile" -> LinkNode(TRUE, <<"ext", "file">>)
      [] l = "extbin" -> LinkNode(TRUE, <<"ext", "bin">>)
      [] l = "extdir" -> LinkNode(TRUE, <<"ext", "dir">>)
      [] l = "reloutside" -> LinkNode(FALSE, <<"..", "..", "..", "..", "ext", "file">>)
      [] OTHER -> LinkNode(FALSE, <<"missing">>)

LinkKinds ==
    {"sibling", "exe", "skipped", "absinside", "absskipped", "extfile", "extbin",
     "extdir", "reloutside", "dangling"}

\* a bundle nested in the bundle, and what is at its Contents/Frameworks: a
\* directory with a library in it, a linked binary, a symbolic link to one
PlugContents == Resources \o <<"P.plugin", "Contents">>
NestedKinds == {"dir", "file", "link"}
NestedEntries(k) ==
    {<<Resources \o <<"P.plugin">>, DirNode>>, <<PlugContents, DirNode>>}
    \cup (CASE k = "dir" ->
                   {<<PlugContents \o <<"Frameworks">>, DirNode>>,
                    <<PlugContents \o <<"Frameworks", "In.dylib">>,
                      Binary(MAGIC_64, 14, <<RpathRef(<<"In.dylib">>)>>, <<sysU>>)>>}
             [] k = "file" ->
                   {<<PlugContents \o <<"Frameworks">>,
                      Binary(MAGIC_64, 14, <<>>, <<sysU>>)>>}
             [] OTHER ->
                   {<<PlugContents \o <<"Frameworks">>,
                      LinkNode(TRUE, <<"ext", "bin">>)>>})

\* the directory of the bundle's second executable: Contents/MacOS, or
\* Contents/Helpers
HelperDir(w) == SourcePath \o <<"Contents", w.helperdir>>

\* the filesystem of the world w, as a set of <<path, node>>
Entries(w) ==
    {<<p, DirNode>> : p \in
        {<<>>, <<"src">>, SourcePath, SourcePath \o <<"Contents">>, MacOS,
         Resources,
         <<"opt">>, <<"opt", "lib">>, <<"opt2">>, <<"opt2", "lib">>,
         <<"opt", "X.framework">>, <<"opt", "X.framework", "Versions">>,
         <<"opt", "X.framework", "Versions", "A">>,
         <<"ext">>, <<"ext", "dir">>}}
    \cup (IF w.outdir THEN {<<OutDir, DirNode>>} ELSE {})
    \cup (CASE w.pre = "dir" ->
                   {<<OutDir \o <<"My.app">>, DirNode>>,
                    <<OutDir \o <<"My.app", "stale">>, DataFile(20)>>}
             [] w.pre = "file" -> {<<OutDir \o <<"My.app">>, DataFile(20)>>}
             [] w.pre = "link" ->
                   {<<OutDir \o <<"My.app">>, LinkNode(TRUE, <<"ext", "dir">>)>>}
             [] OTHER -> {})
    \cup (IF w.old
          THEN {<<SourcePath \o <<"Contents", "Frameworks">>, DirNode>>,
                <<SourcePath \o <<"Contents", "Frameworks", "Old.dylib">>,
                  Binary(MAGIC_64, 3, <<RpathRef(<<"Old.dylib">>)>>, <<sysU>>)>>}
          ELSE {})
    \cup {<<MacOS \o <<"MyApp">>, Binary(CIGAM_64, 1, <<>>, w.e1)>>,
          <<Resources \o <<"data">>, DataFile(4)>>,
          <<<<"opt", "lib", "libA.dylib">>, Binary(CIGAM_64, 5, <<w.idA>>, w.la)>>,
          <<<<"opt2", "lib", "libA.dylib">>, LibA2(w)>>,
          <<<<"opt", "lib", "libB.dylib">>, Binary(MAGIC_FAT, 7, <<absB>>, w.lb)>>,
          <<<<"opt", "X.framework", "Versions", "A", "X">>,
            Binary(CIGAM_FAT, 8, <<RpathRef(<<"X.framework", "Versions", "A", "X">>)>>,
                   <<sysS>>)>>,
          <<<<"opt", "X.framework", "Versions", "A", "Info.plist">>, DataFile(10)>>,
          <<<<"opt", "X.framework", "Versions", "Current">>, LinkNode(FALSE, <<"A">>)>>,
          <<<<"opt", "X.framework", "X">>,
            LinkNode(FALSE, <<"Versions", "Current", "X">>)>>,
          <<<<"ext", "file">>, DataFile(11)>>,
          <<<<"ext", "bin">>, Binary(MAGIC_64, 12, <<>>, <<sysU>>)>>,
          <<<<"ext", "dir", "f">>, DataFile(13)>>,
          <<<<"ext", "dir", "g">>, LinkNode(FALSE, <<"f">>)>>}
    \cup (IF w.helper
          THEN {<<HelperDir(w) \o <<"Helper">>, Binary(CIGAM_64, 2, <<>>, w.e2)>>,
                <<HelperDir(w), DirNode>>}
          ELSE {})
    \cup (IF rpR \in Range(w.e1)
          THEN {<<MacOS \o <<"libR.dylib">>, Binary(CIGAM_64, 9, <<rpR>>, <<sysU>>)>>}
          ELSE {})
    \cup (IF w.link # "none" THEN {<<Resources \o <<"lnk">>, LinkText(w.link)>>}
          ELSE {})
    \cup (IF w.nested # "none" THEN NestedEntries(w.nested) ELSE {})

BuildFs(w) ==
    LET E == Entries(w)
    IN  [p \in {e[1] : e \in E} |-> (CHOOSE e \in E : e[1] = p)[2]]

\* the second executable of the bundle: absent, or Contents/MacOS/Helper with
\* these dependencies (a2: how /opt2/lib/libA.dylib relates to /opt/lib's)
HelperOpts ==
    {[helper |-> FALSE, e2 |-> <<>>, a2 |-> "same"]}
    \cup {[helper |-> TRUE, e2 |-> d, a2 |-> "same"] :
            d \in {<<sysU>>, <<absA>>, <<absB>>, <<fwT>>, <<sysS, absA>>}}
    \cup {[helper |-> TRUE, e2 |-> <<absA2>>, a2 |-> a] :
            a \in {"same", "body", "size"}}

\* the dependencies of libA.dylib and libB.dylib: none but the system's, a
\* chain, a cycle A -> B -> A, a library that names itself
LibOpts ==
    {[la |-> <<sysL>>, lb |-> <<>>],
     [la |-> <<absB>>, lb |-> <<sysU>>],
     [la |-> <<absB>>, lb |-> <<absA>>],
     [la |-> <<absA>>, lb |-> <<>>]}

BaseWorld ==
    [e1 |-> <<sysU, absA>>, helper |-> FALSE, e2 |-> <<>>, a2 |-> "same",
     la |-> <<sysL>>, lb |-> <<>>, idA |-> absA, link |-> "none",
     outdir |-> TRUE, pre |-> "none", del |-> FALSE, source |-> SourcePath,
     old |-> TRUE, nested |-> "none", helperdir |-> "MacOS"]

\* bundles that differ in their dependency graph
DepWorlds ==
    {[BaseWorld EXCEPT !.e1 = e, !.helper = h.helper, !.e2 = h.e2,
                       !.a2 = h.a2, !.la = l.la, !.lb = l.lb, !.idA = i] :
        e \in SeqsNoRep({sysU, absA, fwV, rpR}, MaxDeps),
        h \in HelperOpts, l \in LibOpts, i \in {absA, rpA}}

\* bundles that differ in the symbolic link they hold
LinkWorlds ==
    {[BaseWorld EXCEPT !.link = k, !.e1 = e] :
        k \in LinkKinds, e \in {<<sysU>>, <<sysU, absA>>}}

\* what is at <out_dir>/My.app when perform is called: nothing, a directory
\* with a file in it, a regular file, a symbolic link to the directory /ext/dir
TargetKinds == {"none", "dir", "file", "link"}

\* runs that differ in their options and in what the output directory holds
OptWorlds ==
    {[BaseWorld EXCEPT !.outdir = o, !.pre = p, !.del = d, !.source = s] :
        o \in BOOLEAN, p \in TargetKinds, d \in BOOLEAN,
        s \in {SourcePath, <<"ext", "file">>}}

\* bundles without a Contents/Frameworks of their own, whose one binary has
\* one local dependency
SingleWorlds ==
    {[BaseWorld EXCEPT !.old = FALSE, !.e1 = e, !.idA = i] :
        e \in {<<absA>>, <<sysU, absA>>}, i \in {absA, rpA}}

\* bundles with a second Contents/Frameworks, deeper in the tree
NestedWorlds ==
    {[BaseWorld EXCEPT !.nested = k, !.old = o] : k \in NestedKinds, o \in BOOLEAN}

\* bundles whose main executable names a library that is nowhere, before or
\* after one that is there, with or without a second executable
MissingWorlds ==
    {[BaseWorld EXCEPT !.e1 = e, !.helper = h, !.e2 = IF h THEN <<absA>> ELSE <<>>] :
        e \in {<<absM>>, <<absM, absA>>, <<absA, absM>>}, h \in BOOLEAN}

Worlds ==
    DepWorlds \cup LinkWorlds \cup {w \in OptWorlds : w.pre # "none" => w.outdir}
        \cup SingleWorlds \cup MissingWorlds \cup NestedWorlds

\* ---------------------------------------------------------------- state
VARIABLES
    fs,                  \* the filesystem
    fs0,                 \* the filesystem when perform was called
    options,             \* Options
    pc,                  \* where perform stands
    err,                 \* the error perform returned ("" while there is none)
    out_path,            \* SelfContained::out_path
    executables,         \* SelfContained::executables
    processed_libraries, \* SelfContained::processed_libraries
    dirs,                \* the active calls of process_dir, innermost last
    queue,               \* the executables perform has yet to process
    mods,                \* the active calls of process_module, innermost last
    dep,                 \* the locals of the process_dependency under way
    rpaths,              \* the roots of the PathResolver of this executable
    log,                 \* what was done since the tree copy, in order
    previous,            \* how the call of perform before this one ended
    notarization         \* Notarize::notarize_wait and the service it polls

vars ==
    <<fs, fs0, options, pc, err, out_path, executables, processed_libraries,
      dirs, queue, mods, dep, rpaths, log, previous, notarization>>

\* no notarization is waited for
NotWaiting == [state |-> "none"]

EmptyMap == [m \in {} |-> <<>>]
NoDep == [state |-> "none"]

\* the state when perform is called for the first time, in one of the worlds W
InitIn(W) ==
    \E w \in W :
        /\ previous = "none"
        /\ notarization = NotWaiting
        /\ fs = BuildFs(w)
        /\ fs0 = fs
        /\ options = [source_path |-> w.source, out_dir |-> OutDir,
                      delete_existing_bundle |-> w.del]
        /\ pc = "start"
        /\ err = ""
        /\ out_path = <<>>
        /\ executables = <<>>
        /\ processed_libraries = EmptyMap
        /\ dirs = <<>>
        /\ queue = <<>>
        /\ mods = <<>>
        /\ dep = NoDep
        /\ rpaths = <<>>
        /\ log = <<>>

Init == InitIn(Worlds)

\* ------------------------------------------------------------- perform
\* perform returns Err(kind): nothing of the run is done after it
Fail(kind) == pc' = "failed" /\ err' = kind

\* perform_validate as it would be if only the output directory were checked
perform_validate_out_dir_only ==
    /\ pc = "start"
    /\ IF ~is_dir(fs, options.out_dir) THEN Fail("out-dir")
       ELSE pc' = "prepare" /\ err' = err
    /\ UNCHANGED <<fs, fs0, previous, notarization, options, out_path, executables, processed_libraries,
                   dirs, queue, mods, dep, rpaths, log>>

\* perform, lines 76-86: both paths are checked before anything is touched
perform_validate ==
    /\ pc = "start"
    /\ IF ~is_dir(fs, options.source_path) THEN Fail("source-path")
       ELSE IF ~is_dir(fs, options.out_dir) THEN Fail("out-dir")
       ELSE pc' = "prepare" /\ err' = err
    /\ UNCHANGED <<fs, fs0, previous, notarization, options, out_path, executables, processed_libraries,
                   dirs, queue, mods, dep, rpaths, log>>

\* the outcome of a step on the filesystem: the error ("" for none) and the
\* filesystem it leaves
FsResult(e, f) == [err |-> e, fs |-> f]

\* perform, lines 104-105: the fresh output directory
made_output(made) == FsResult(IF made.ok THEN "" ELSE "MkDir", made.fs)

\* perform, lines 93-105: an existing target was removed, or there was none
make_output(removed, outp) ==
    IF ~removed.ok THEN FsResult("RemoveDir", removed.fs)
    ELSE made_output(create_dir(removed.fs, outp))

\* prepare_output as it would be if an existing target were kept and the
\* bundle written into it
prepare_output_reusing(f, opts, outp) ==
    IF exists(f, outp) /\ ~opts.delete_existing_bundle
    THEN FsResult("target-exists", f)
    ELSE IF exists(f, outp) THEN FsResult("", f)
    ELSE make_output(Ok(f), outp)

\* perform, lines 92-105: [err, fs] of making the fresh output directory
prepare_output(f, opts, outp) ==
    IF exists(f, outp) /\ ~opts.delete_existing_bundle
    THEN FsResult("target-exists", f)
    ELSE make_output(IF exists(f, outp) THEN remove_dir_all(f, outp) ELSE Ok(f),
                     outp)

\* one call of process_dir: the directories and the entries it has yet to
\* visit (read_dir yields them in no particular order)
DirFrame(f, src, dst) ==
    [src |-> src, dst |-> dst, todo |-> Children(f, canonicalize(f, src))]

\* perform, line 107: process_dir is called on the source unless preparing
\* the output failed
perform_prepared(outp, r) ==
    /\ out_path' = outp
    /\ fs' = r.fs
    /\ IF r.err # "" THEN Fail(r.err) /\ dirs' = dirs
       ELSE /\ pc' = "copy"
            /\ err' = err
            /\ dirs' = <<DirFrame(r.fs, options.source_path, outp)>>

\* perform, lines 88-107: the output directory is made and process_dir is
\* called on the source
perform_prepare ==
    /\ pc = "prepare"
    /\ perform_prepared(
           join(options.out_dir, <<file_name(options.source_path)>>),
           prepare_output(fs, options,
                          join(options.out_dir, <<file_name(options.source_path)>>)))
    /\ UNCHANGED <<fs0, previous, notarization, options, executables, processed_libraries, queue, mods,
                   dep, rpaths, log>>

\* the outcome of the loop body of process_dir: the error, the filesystem,
\* whether process_dir is called on the entry, whether it is an executable
DirResult(e, f, rec, bin) == [err |-> e, fs |-> f, recurse |-> rec, binary |-> bin]

\* process_dir, lines 163-165
visit_dir(made) ==
    IF made.ok THEN DirResult("", made.fs, TRUE, FALSE)
    ELSE DirResult("CreateDir", made.fs, FALSE, FALSE)

\* visit_file as it would be if every copied file were noted as an executable
visit_file_noting_all(copied, node) ==
    IF ~copied.ok THEN DirResult("Copy", copied.fs, FALSE, FALSE)
    ELSE DirResult("", copied.fs, FALSE, TRUE)

\* process_dir, lines 168-179
visit_file(copied, node) ==
    IF ~copied.ok THEN DirResult("Copy", copied.fs, FALSE, FALSE)
    ELSE DirResult("", copied.fs, FALSE, is_executable_binary(node))

\* process_dir, lines 162-180: a directory is created, a file copied
visit_resolved(f, dest, src_resolved) ==
    IF src_resolved = NoPath THEN DirResult("Canonicalize", f, FALSE, FALSE)
    ELSE IF is_dir(f, src_resolved) THEN visit_dir(create_dir(f, dest))
    ELSE visit_file(fs_copy(f, src_resolved, dest), f[src_resolved])

\* process_dir, lines 157-160
visit_source(f, entry, dest) == visit_resolved(f, dest, canonicalize(f, entry))

\* process_dir, lines 154-160: the link that leaves the bundle is deleted and
\* what it resolves to is copied in its place
replace_link(unlinked, entry, dest) ==
    IF ~unlinked.ok THEN DirResult("Remove", unlinked.fs, FALSE, FALSE)
    ELSE visit_source(unlinked.fs, entry, dest)

\* keep_or_replace as it would be if every link that resolves were kept
keep_every_link(f, entry, dest, dest_resolved, bundle_path_resolved) ==
    IF dest_resolved = NoPath \/ bundle_path_resolved = NoPath
    THEN DirResult("Canonicalize", f, FALSE, FALSE)
    ELSE DirResult("", f, FALSE, FALSE)

\* process_dir, lines 143-154: the new link is resolved; it stays if it
\* resolves into the output bundle
keep_or_replace(f, entry, dest, dest_resolved, bundle_path_resolved) ==
    IF dest_resolved = NoPath \/ bundle_path_resolved = NoPath
    THEN DirResult("Canonicalize", f, FALSE, FALSE)
    ELSE IF starts_with(dest_resolved, bundle_path_resolved)
         THEN DirResult("", f, FALSE, FALSE)
    ELSE replace_link(remove_file(f, dest), entry, dest)

\* process_dir, lines 137-154: the link is made anew in the output
visit_link(linked, outp, entry, dest) ==
    IF ~linked.ok THEN DirResult("SymLink", linked.fs, FALSE, FALSE)
    ELSE keep_or_replace(linked.fs, entry, dest, canonicalize(linked.fs, dest),
                         canonicalize(linked.fs, outp))

\* process_dir, lines 135-180
visit(f, outp, entry, dest, meta) ==
    IF meta.kind = "link" THEN visit_link(symlink(f, meta, dest), outp, entry, dest)
    ELSE visit_source(f, entry, dest)

\* is_frameworks_dir as it would be if only the Contents/Frameworks of the
\* bundle itself were left out
is_frameworks_dir_of_bundle(src, name) ==
    src = join(options.source_path, <<"Contents">>) /\ name = "Frameworks"

\* process_dir, line 129: Contents/Frameworks is left out of the tree copy
is_frameworks_dir(src, name) == file_name(src) = "Contents" /\ name = "Frameworks"

\* the body of the loop of process_dir for the entry name of src
process_dir_body(f, outp, src, dst, name) ==
    IF file_name(src) = NoName THEN DirResult("panic", f, FALSE, FALSE)
    ELSE IF is_frameworks_dir(src, name) THEN DirResult("", f, FALSE, FALSE)
    ELSE visit(f, outp, Append(src, name), Append(dst, name),
               f[EntryPath(f, Append(src, name))])

\* process_dir_visited as it would be if a tree copy that fails removed the
\* output directory it had begun
process_dir_visited_cleaning(top, name, r) ==
    /\ fs' = IF r.err # "" THEN remove_dir_all(r.fs, out_path).fs ELSE r.fs
    /\ IF r.err # "" THEN Fail(r.err) /\ dirs' = dirs
       ELSE /\ pc' = pc
            /\ err' = err
            /\ dirs' = [dirs EXCEPT ![Len(dirs)].todo = @ \ {name}]
                       \o (IF r.recurse
                           THEN <<DirFrame(r.fs, Append(top.src, name),
                                           Append(top.dst, name))>>
                           ELSE <<>>)
    /\ executables' = IF r.err = "" /\ r.binary
                      THEN Append(executables, Append(top.src, name))
                      ELSE executables

\* the entry name of the directory on top was visited with the outcome r
process_dir_visited(top, name, r) ==
    /\ fs' = r.fs
    /\ IF r.err # "" THEN Fail(r.err) /\ dirs' = dirs
       ELSE /\ pc' = pc
            /\ err' = err
            /\ dirs' = [dirs EXCEPT ![Len(dirs)].todo = @ \ {name}]
                       \o (IF r.recurse
                           THEN <<DirFrame(r.fs, Append(top.src, name),
                                           Append(top.dst, name))>>
                           ELSE <<>>)
    /\ executables' = IF r.err = "" /\ r.binary
                      THEN Append(executables, Append(top.src, name))
                      ELSE executables

\* process_dir, lines 118-181: one entry of the directory on top is visited,
\* whichever read_dir yields next
process_dir_entry ==
    /\ pc = "copy"
    /\ dirs # <<>>
    /\ \E name \in Last(dirs).todo :
         process_dir_visited(Last(dirs), name,
             process_dir_body(fs, out_path, Last(dirs).src, Last(dirs).dst, name))
    /\ UNCHANGED <<fs0, previous, notarization, options, out_path, processed_libraries, queue, mods,
                   dep, rpaths, log>>

\* process_dir, line 182, and perform, line 109: a directory is finished;
\* after the outermost one perform takes its copy of the executables
process_dir_return ==
    /\ pc = "copy"
    /\ dirs # <<>>
    /\ Last(dirs).todo = {}
    /\ dirs' = Front(dirs)
    /\ IF Len(dirs) = 1
       THEN pc' = "executables" /\ queue' = executables
       ELSE pc' = pc /\ queue' = queue
    /\ UNCHANGED <<fs, fs0, previous, notarization, options, err, out_path, executables,
                   processed_libraries, mods, dep, rpaths, log>>

\* ------------------------------------------------- the dependency walk
\* an entry of the log: a reference resolved, a binary introspected (arg:
\* where the module is in the output), a directory made, a root copied (arg:
\* from where), and the three link edits (arg: what the instruction says)
Event(op, path, ref, arg) == [op |-> op, path |-> path, ref |-> ref, arg |-> arg]
NoRef == AbsRef(<<>>)

frameworks_path(outp) == join(outp, <<"Contents", "Frameworks">>)

\* run_command: whether the external tool may exit with status zero; it
\* cannot when the file it is to read or edit is not there
ToolOutcomes(f, path) == IF is_file(f, path) THEN BOOLEAN ELSE {FALSE}

\* one call of process_module: the module's target, its dependencies, the
\* index of the next one, paths_to_change, and for a library the locals of
\* the process_dependency that called
ModuleFrame(target, deps, isLib, d) ==
    [target_module_path |-> target, dependencies |-> deps, i |-> 1,
     paths_to_change |-> <<>>, library |-> isLib, dep |-> d]

\* process_executable, lines 193-196: process_module is called on the
\* executable unless loading it failed
process_executable_loaded(ok, module, target_executable_path) ==
    IF ~ok THEN Fail("ToolError") /\ mods' = mods
    ELSE IF ~module.ok THEN Fail("otool-output") /\ mods' = mods
    ELSE /\ pc' = "module"
         /\ err' = err
         /\ mods' = <<ModuleFrame(target_executable_path, module.dependencies,
                                  FALSE, NoDep)>>

\* process_executable, lines 187-193
process_executable_at(relative, executable) ==
    IF relative = NoPath THEN Fail("panic") /\ UNCHANGED <<rpaths, mods, log>>
    ELSE IF executable = NoPath
         THEN Fail("Canonicalize") /\ UNCHANGED <<rpaths, mods, log>>
    ELSE /\ rpaths' = <<parent(executable)>>
         /\ log' = Append(log, Event("otool", executable, NoRef,
                                     join(out_path, relative)))
         /\ \E ok \in ToolOutcomes(fs, executable) :
              process_executable_loaded(ok, load_executable(otool(fs, executable)),
                                        join(out_path, relative))

\* process_executable, lines 186-196: the next executable is loaded and
\* process_module is called on it
process_executable ==
    /\ pc = "executables"
    /\ queue # <<>>
    /\ queue' = Tail(queue)
    /\ process_executable_at(diff_paths(Head(queue), options.source_path),
                             canonicalize(fs, Head(queue)))
    /\ UNCHANGED <<fs, fs0, previous, notarization, options, out_path, executables, processed_libraries,
                   dirs, dep>>

\* DepResult as it would be if the new reference were "@rpath/" and the base
\* name of the resolved file
DepResult_base_name(e, d, resolved, root, relative_path) ==
    [err |-> e, dependency |-> d, resolved |-> resolved, root |-> root,
     relative_path |-> relative_path, new_module_path |-> RpathRef(<<Last(resolved)>>)]

\* the locals of process_dependency, lines 249-253
DepResult(e, d, resolved, root, relative_path) ==
    [err |-> e, dependency |-> d, resolved |-> resolved, root |-> root,
     relative_path |-> relative_path, new_module_path |-> RpathRef(relative_path)]

\* process_dependency, lines 251-253
relocated(d, resolved, root, relative_path) ==
    DepResult(IF relative_path = NoPath THEN "panic" ELSE "", d, resolved, root,
              relative_path)

\* process_dependency, lines 250-251
rooted(d, resolved, root) ==
    IF root = Panic \/ parent(root) = NoPath
    THEN DepResult("panic", d, resolved, NoPath, NoPath)
    ELSE relocated(d, resolved, root, diff_paths(resolved, parent(root)))

\* process_dependency, lines 249-250
located(d, resolved) ==
    IF resolved = NoPath THEN DepResult("PathResolve", d, NoPath, NoPath, NoPath)
    ELSE rooted(d, resolved, find_dependency_root(resolved))

\* process_dependency, lines 249-253: the reference d resolved, its root and
\* its new reference
locate_dependency(f, roots, d) == located(d, resolve(f, roots, d))

\* Answered as it would be if the pair were never noted
Answered_unnoted(frames, d, new_path) ==
    [frames EXCEPT ![Len(frames)] = [@ EXCEPT !.i = @ + 1]]

\* the module on top with the reference d answered by new_path: the pair is
\* noted if the two differ (process_module, lines 225-227)
Answered(frames, d, new_path) ==
    [frames EXCEPT ![Len(frames)] =
        [@ EXCEPT !.i = @ + 1,
                  !.paths_to_change =
                      IF new_path # d THEN Append(@, <<d, new_path>>) ELSE @]]

\* is_processed as it would be if the map were searched for the reference
\* among the recorded sources
is_processed_by_source(libs, m) == m.comps \in {libs[k] : k \in DOMAIN libs}

\* the lookup of process_dependency, line 254
is_processed(libs, m) == m \in DOMAIN libs

\* insert as it would be if the source were recorded under its own path
insert_by_source(libs, m, resolved) ==
    [k \in DOMAIN libs \cup {AbsRef(resolved)} |->
        IF k = AbsRef(resolved) THEN resolved ELSE libs[k]]

\* insert as it would be if the key were not recorded when the lookup misses
insert_not_yet(libs, m, resolved) == libs

\* processed_libraries.insert, lines 264-265
insert(libs, m, resolved) ==
    [k \in DOMAIN libs \cup {m} |-> IF k = m THEN resolved ELSE libs[k]]

\* process_dependency_hit as it would be if a dependency found processed
\* already gave the caller nothing to rewrite
process_dependency_hit_silent(d, new_module_path, same) ==
    IF ~same.ok THEN Fail("MetaData") /\ mods' = mods
    ELSE IF ~same.same THEN Fail("version-conflict") /\ mods' = mods
    ELSE /\ mods' = [mods EXCEPT ![Len(mods)].i = @ + 1]
         /\ UNCHANGED <<pc, err>>

\* process_dependency, lines 255-261: the new reference is processed already
process_dependency_hit(d, new_module_path, same) ==
    IF ~same.ok THEN Fail("MetaData") /\ mods' = mods
    ELSE IF ~same.same THEN Fail("version-conflict") /\ mods' = mods
    ELSE /\ mods' = Answered(mods, d, new_module_path)
         /\ UNCHANGED <<pc, err>>

\* process_dependency_located as it would be if a dependency that cannot be
\* resolved were passed over
process_dependency_located_skipping(d, r) ==
    IF r.err # ""
    THEN /\ mods' = [mods EXCEPT ![Len(mods)].i = @ + 1]
         /\ UNCHANGED <<pc, err, processed_libraries, dep>>
    ELSE IF is_processed(processed_libraries, r.new_module_path)
         THEN /\ UNCHANGED <<processed_libraries, dep>>
              /\ process_dependency_hit(d, r.new_module_path,
                     is_same(fs, r.resolved, processed_libraries[r.new_module_path]))
    ELSE /\ processed_libraries' =
                insert(processed_libraries, r.new_module_path, r.resolved)
         /\ dep' = r
         /\ pc' = "load"
         /\ UNCHANGED <<err, mods>>

\* process_dependency, lines 249-265
process_dependency_located(d, r) ==
    IF r.err # "" THEN Fail(r.err) /\ UNCHANGED <<mods, processed_libraries, dep>>
    ELSE IF is_processed(processed_libraries, r.new_module_path)
         THEN /\ UNCHANGED <<processed_libraries, dep>>
              /\ process_dependency_hit(d, r.new_module_path,
                     is_same(fs, r.resolved, processed_libraries[r.new_module_path]))
    ELSE /\ processed_libraries' =
                insert(processed_libraries, r.new_module_path, r.resolved)
         /\ dep' = r
         /\ pc' = "load"
         /\ UNCHANGED <<err, mods>>

\* process_module, lines 220-224: a system dependency is passed over,
\* process_dependency is called on any other
process_module_dependency(d) ==
    IF is_system(d)
    THEN /\ mods' = [mods EXCEPT ![Len(mods)].i = @ + 1]
         /\ UNCHANGED <<pc, err, processed_libraries, dep, log>>
    ELSE /\ log' = Append(log, Event("resolve", <<>>, d, <<>>))
         /\ process_dependency_located(d, locate_dependency(fs, rpaths, d))

\* process_module, lines 220-224, and process_dependency, lines 249-265: the
\* next dependency of the module on top is skipped (system), found already
\* processed (the same file, or a conflict), or recorded as new
process_module_next ==
    /\ pc = "module"
    /\ Last(mods).i <= Len(Last(mods).dependencies)
    /\ process_module_dependency(Last(mods).dependencies[Last(mods).i])
    /\ UNCHANGED <<fs, fs0, previous, notarization, options, out_path, executables, dirs, queue, rpaths>>

\* process_dependency, line 266: the outcome of load_library
process_dependency_loaded(ok, library) ==
    IF ~ok THEN Fail("ToolError") /\ dep' = dep
    ELSE IF ~library.ok THEN Fail("otool-output") /\ dep' = dep
    ELSE /\ pc' = "bundle"
         /\ err' = err
         /\ dep' = [err |-> "", dependency |-> dep.dependency,
                    resolved |-> dep.resolved, root |-> dep.root,
                    relative_path |-> dep.relative_path,
                    new_module_path |-> dep.new_module_path,
                    install_name |-> library.install_name,
                    dependencies |-> library.dependencies]

\* process_dependency, line 266: the library is introspected
process_dependency_load ==
    /\ pc = "load"
    /\ log' = Append(log, Event("otool", dep.resolved, dep.new_module_path,
                                join(frameworks_path(out_path), dep.relative_path)))
    /\ \E ok \in ToolOutcomes(fs, dep.resolved) :
         process_dependency_loaded(ok, load_library(otool(fs, dep.resolved)))
    /\ UNCHANGED <<fs, fs0, previous, notarization, options, out_path, executables, processed_libraries,
                   dirs, queue, mods, rpaths>>

\* the outcome of bundling a root: the error, the filesystem, whether the
\* Frameworks directory had to be made, from where to where the copy went
BundleResult(e, f, created, copy_target, real_root) ==
    [err |-> e, fs |-> f, made |-> created, copy_target |-> copy_target,
     real_root |-> real_root]

\* process_dependency, lines 275-279
bundled(copied, created, copy_target, real_root) ==
    BundleResult(IF copied.ok THEN "" ELSE "Copy", copied.fs, created,
                 copy_target, real_root)

\* bundle_from as it would be if the library were walked and edited at its
\* place in the bundle before the root is copied there
bundle_from_uncopied(f, created, copy_target, real_root) ==
    IF real_root = NoPath
    THEN BundleResult("Canonicalize", f, created, copy_target, real_root)
    ELSE bundled(Ok(f), created, copy_target, real_root)

\* process_dependency, lines 271-279
bundle_from(f, created, copy_target, real_root) ==
    IF real_root = NoPath
    THEN BundleResult("Canonicalize", f, created, copy_target, real_root)
    ELSE bundled(copy(f, real_root, copy_target), created, copy_target, real_root)

\* process_dependency, lines 268-273
bundle_in(f, made, root, copy_target) ==
    IF ~made.ok THEN BundleResult("MkDir", made.fs, FALSE, copy_target, NoPath)
    ELSE IF file_name(root) = NoName
         THEN BundleResult("panic", made.fs, made.fs # f, copy_target, NoPath)
    ELSE bundle_from(made.fs, made.fs # f, copy_target, canonicalize(made.fs, root))

\* process_dependency, lines 267-279: the shared-library directory is made
\* if it is not there, and the root copied into it under its base name
bundle_root(f, outp, root) ==
    bundle_in(f, create_dir_all(f, frameworks_path(outp)), root,
              join(frameworks_path(outp), <<file_name(root)>>))

\* the log of a bundling: the directory made, the root copied
BundleLog(r, new_module_path, outp) ==
    (IF r.made THEN <<Event("mkdir", frameworks_path(outp), NoRef, <<>>)>> ELSE <<>>)
    \o (IF r.err = ""
        THEN <<Event("copy", r.copy_target, new_module_path, r.real_root)>>
        ELSE <<>>)

\* process_dependency, lines 281-282: process_module is called on the copy
process_dependency_bundled(r) ==
    /\ fs' = r.fs
    /\ log' = log \o BundleLog(r, dep.new_module_path, out_path)
    /\ IF r.err # "" THEN Fail(r.err) /\ mods' = mods
       ELSE /\ pc' = "module"
            /\ err' = err
            /\ mods' = Append(mods,
                   ModuleFrame(join(frameworks_path(out_path), dep.relative_path),
                               dep.dependencies, TRUE, dep))

\* process_dependency, lines 267-282: the root is copied and process_module
\* is called on the library at its place in the bundle
process_dependency_copy ==
    /\ pc = "bundle"
    /\ process_dependency_bundled(bundle_root(fs, out_path, dep.root))
    /\ dep' = NoDep
    /\ UNCHANGED <<fs0, previous, notarization, options, out_path, executables, processed_libraries,
                   dirs, queue, rpaths>>

\* where perform goes on after process_module returned Ok
AfterModule(top) == IF top.library THEN "identity" ELSE "rpath"

\* process_module_change as it would be if every pair were rewritten by an
\* instruction of its own
process_module_change_each(top) ==
    IF top.paths_to_change = <<>>
    THEN /\ pc' = AfterModule(top)
         /\ UNCHANGED <<err, log>>
    ELSE /\ log' = log \o [n \in 1..Len(top.paths_to_change) |->
                              Event("change", top.target_module_path, NoRef,
                                    <<top.paths_to_change[n]>>)]
         /\ \E ok \in ToolOutcomes(fs, top.target_module_path) :
              IF ~ok THEN Fail("ToolError")
              ELSE pc' = AfterModule(top) /\ err' = err

\* process_module, lines 229-241, for the module top
process_module_change(top) ==
    IF top.paths_to_change = <<>>
    THEN /\ pc' = AfterModule(top)
         /\ UNCHANGED <<err, log>>
    ELSE /\ log' = Append(log, Event("change", top.target_module_path, NoRef,
                                     top.paths_to_change))
         /\ \E ok \in ToolOutcomes(fs, top.target_module_path) :
              IF ~ok THEN Fail("ToolError")
              ELSE pc' = AfterModule(top) /\ err' = err

\* process_module, lines 229-241: every dependency of the module on top was
\* processed; the references that changed are rewritten in one instruction
process_module_finish ==
    /\ pc = "module"
    /\ Last(mods).i > Len(Last(mods).dependencies)
    /\ process_module_change(Last(mods))
    /\ UNCHANGED <<fs, fs0, previous, notarization, options, out_path, executables, processed_libraries,
                   dirs, queue, mods, dep, rpaths>>

\* process_dependency_return as it would be if the identity were set
\* whatever the install name of the library
process_dependency_return_always(top, d) ==
    /\ log' = Append(log, Event("id", top.target_module_path,
                                d.new_module_path, <<>>))
    /\ \E ok \in ToolOutcomes(fs, top.target_module_path) :
         IF ~ok THEN Fail("ToolError") /\ mods' = mods
         ELSE /\ pc' = "module"
              /\ err' = err
              /\ mods' = Answered(Front(mods), d.dependency, d.new_module_path)

\* process_dependency, lines 283-291, for the library top bundled for d
process_dependency_return(top, d) ==
    IF d.install_name = d.new_module_path
    THEN /\ pc' = "module"
         /\ mods' = Answered(Front(mods), d.dependency, d.new_module_path)
         /\ UNCHANGED <<err, log>>
    ELSE /\ log' = Append(log, Event("id", top.target_module_path,
                                     d.new_module_path, <<>>))
         /\ \E ok \in ToolOutcomes(fs, top.target_module_path) :
              IF ~ok THEN Fail("ToolError") /\ mods' = mods
              ELSE /\ pc' = "module"
                   /\ err' = err
                   /\ mods' = Answered(Front(mods), d.dependency, d.new_module_path)

\* process_dependency, lines 283-291: the library's identity is set if it is
\* not the new reference already, and the new reference goes back to the
\* module that named the dependency
process_dependency_identity ==
    /\ pc = "identity"
    /\ process_dependency_return(Last(mods), Last(mods).dep)
    /\ UNCHANGED <<fs, fs0, previous, notarization, options, out_path, executables, processed_libraries,
                   dirs, queue, dep, rpaths>>

\* has_local_dependencies as it would be if any dependency counted
has_any_dependencies(deps) == deps # <<>>

\* process_executable, line 197
has_local_dependencies(deps) == \E i \in 1..Len(deps) : ~is_system(deps[i])

\* process_executable, lines 198-209, for the executable top
process_executable_add_rpath(top, rpath) ==
    IF ~has_local_dependencies(top.dependencies)
    THEN /\ pc' = "executables"
         /\ UNCHANGED <<err, log>>
    ELSE IF rpath = NoPath THEN Fail("panic") /\ log' = log
    ELSE /\ log' = Append(log, Event("add_rpath", top.target_module_path, NoRef,
                                     <<"@executable_path">> \o rpath))
         /\ \E ok \in ToolOutcomes(fs, top.target_module_path) :
              IF ~ok THEN Fail("ToolError")
              ELSE pc' = "executables" /\ err' = err

\* process_executable, lines 197-210: an executable with a local dependency
\* gets the runtime search path of the bundle's Frameworks directory
process_executable_rpath ==
    /\ pc = "rpath"
    /\ process_executable_add_rpath(
           Last(mods),
           diff_paths(frameworks_path(out_path),
                      parent(Last(mods).target_module_path)))
    /\ mods' = <<>>
    /\ UNCHANGED <<fs, fs0, previous, notarization, options, out_path, executables, processed_libraries,
                   dirs, queue, dep, rpaths>>

\* perform, lines 110-114: every executable was processed
perform_done ==
    /\ pc = "executables"
    /\ queue = <<>>
    /\ pc' = "done"
    /\ UNCHANGED <<fs, fs0, previous, notarization, options, err, out_path, executables,
                   processed_libraries, dirs, queue, mods, dep, rpaths, log>>

Next ==
    \/ perform_validate
    \/ perform_prepare
    \/ process_dir_entry
    \/ process_dir_return
    \/ process_executable
    \/ process_module_next
    \/ process_dependency_load
    \/ process_dependency_copy
    \/ process_module_finish
    \/ process_dependency_identity
    \/ process_executable_rpath
    \/ perform_done

Spec == Init /\ [][Next]_vars

\* perform has returned
Returned == pc \in {"done", "failed"}

\* perform runs to its end, every call returns and every external tool exits:
\* weak fairness of Next, with the state predicate ~Returned written for
\* ENABLED <<Next>>_vars (a step of Next is possible exactly until perform
\* has returned)
Fairness == []<>Returned \/ []<><<Next>>_vars

FairSpec == Spec /\ Fairness

\* ------------------------------------------------------- a second call
\* the bundles on which perform is called again after it failed
RetryWorlds == SingleWorlds \cup MissingWorlds \cup LinkWorlds

\* perform returned an error after it had made the output directory: from
\* within process_dir, or from process_executable
failed_partway == pc = "failed" /\ (dirs # <<>> \/ executables # <<>>)

\* main, line 58: the tool is run again after a run that failed, on the
\* filesystem that run left, with the same paths and with or without
\* delete_existing_bundle; SelfContained::new starts from empty fields
perform_again ==
    /\ pc = "failed"
    /\ previous' = IF failed_partway THEN "partial" ELSE "early"
    /\ \E d \in BOOLEAN :
         options' = [options EXCEPT !.delete_existing_bundle = d]
    /\ fs0' = fs
    /\ pc' = "start"
    /\ err' = ""
    /\ out_path' = <<>>
    /\ executables' = <<>>
    /\ processed_libraries' = EmptyMap
    /\ dirs' = <<>>
    /\ queue' = <<>>
    /\ mods' = <<>>
    /\ dep' = NoDep
    /\ rpaths' = <<>>
    /\ log' = <<>>
    /\ UNCHANGED <<fs, notarization>>

RetryNext == Next \/ perform_again

RetrySpec == InitIn(RetryWorlds) /\ [][RetryNext]_vars

\* ------------------------------------------- find_dependency_root alone
\* the component names of the paths find_dependency_root is applied to
RootNames == {"opt", "X.framework", "Versions", "A", "X"}

RECURSIVE PathsUpTo(_)
\* the absolute paths of one to n components
PathsUpTo(n) ==
    IF n = 0 THEN {}
    ELSE PathsUpTo(n - 1) \cup [1..n -> RootNames]

\* a resolved path is about to be handed to find_dependency_root; nothing is
\* on the filesystem but its root
RootInit ==
    \E path \in PathsUpTo(MaxRootDepth) :
        /\ previous = "none"
        /\ notarization = NotWaiting
        /\ fs = [q \in {<<>>} |-> DirNode]
        /\ fs0 = fs
        /\ options = [source_path |-> SourcePath, out_dir |-> OutDir,
                      delete_existing_bundle |-> FALSE]
        /\ pc = "root"
        /\ err = ""
        /\ out_path = <<>>
        /\ executables = <<>>
        /\ processed_libraries = EmptyMap
        /\ dirs = <<>>
        /\ queue = <<>>
        /\ mods = <<>>
        /\ dep = [state |-> "resolved", resolved |-> path]
        /\ rpaths = <<>>
        /\ log = <<>>

\* process_dependency, line 250: the root of the resolved path
process_dependency_root ==
    /\ pc = "root"
    /\ pc' = "rooted"
    /\ dep' = [state |-> "rooted", resolved |-> dep.resolved,
               root |-> find_dependency_root(dep.resolved)]
    /\ UNCHANGED <<fs, fs0, previous, notarization, options, err, out_path, executables,
                   processed_libraries, dirs, queue, mods, rpaths, log>>

RootSpec == RootInit /\ [][process_dependency_root]_vars

\* --------------------------------------------- PathResolver::resolve alone
\* the directories a PathResolver is configured with
ResolveRoots == {<<"r1">>, <<"r2">>, <<"r3">>}
\* what a root holds under the name libR.dylib: nothing, a library, or a
\* symbolic link whose target is not there
ResolveKinds == {"none", "file", "dangling"}
\* the references resolve is asked for
ResolveRefs ==
    {RpathRef(<<"libR.dylib">>), AbsRef(<<"r2", "libR.dylib">>),
     AbsRef(<<"opt", "libA.dylib">>), AbsRef(<<"opt", "libMissing.dylib">>)}

ResolveEntry(root, kind) ==
    CASE kind = "file" ->
            {<<Append(root, "libR.dylib"), Binary(CIGAM_64, 5, <<rpR>>, <<sysS>>)>>}
      [] kind = "dangling" ->
            {<<Append(root, "libR.dylib"), LinkNode(FALSE, <<"gone.dylib">>)>>}
      [] OTHER -> {}

\* the filesystem with the three roots, /opt, and the entries chosen by k
\* (a kind per root) and a (whether /opt/libA.dylib is there)
ResolveFs(k, a) ==
    LET E == {<<<<>>, DirNode>>, <<<<"opt">>, DirNode>>}
             \cup {<<r, DirNode>> : r \in ResolveRoots}
             \cup UNION {ResolveEntry(r, k[r]) : r \in ResolveRoots}
             \cup (IF a THEN {<<<<"opt", "libA.dylib">>,
                               Binary(CIGAM_64, 5, <<absA>>, <<sysS>>)>>}
                   ELSE {})
    IN  [p \in {e[1] : e \in E} |-> (CHOOSE e \in E : e[1] = p)[2]]

\* process_dependency is about to resolve a reference with a PathResolver of
\* up to MaxRoots roots
ResolveInit ==
    \E k \in [ResolveRoots -> ResolveKinds], a \in BOOLEAN,
       roots \in SeqsNoRep(ResolveRoots, MaxRoots), m \in ResolveRefs :
        /\ previous = "none"
        /\ notarization = NotWaiting
        /\ fs = ResolveFs(k, a)
        /\ fs0 = fs
        /\ options = [source_path |-> SourcePath, out_dir |-> OutDir,
                      delete_existing_bundle |-> FALSE]
        /\ pc = "resolve"
        /\ err = ""
        /\ out_path = <<>>
        /\ executables = <<>>
        /\ processed_libraries = EmptyMap
        /\ dirs = <<>>
        /\ queue = <<>>
        /\ mods = <<>>
        /\ dep = [state |-> "called", dependency |-> m]
        /\ rpaths = roots
        /\ log = <<>>

\* ToolError::PathResolve, lines 335-338: the reference and the roots
PathResolve(m, roots) == [state |-> "PathResolve", path |-> m, rpaths |-> roots]

\* process_dependency, line 249: Ok(resolved), or the error is returned
process_dependency_resolved(m, resolved) ==
    IF resolved = NoPath
    THEN Fail("PathResolve") /\ dep' = PathResolve(m, rpaths)
    ELSE /\ pc' = "resolved"
         /\ err' = err
         /\ dep' = [state |-> "resolved", dependency |-> m, resolved |-> resolved]

\* process_dependency, line 249: path_resolver.resolve(dependency)?
process_dependency_resolve ==
    /\ pc = "resolve"
    /\ process_dependency_resolved(dep.dependency, resolve(fs, rpaths, dep.dependency))
    /\ UNCHANGED <<fs, fs0, previous, notarization, options, out_path, executables,
                   processed_libraries, dirs, queue, mods, rpaths, log>>

ResolveSpec == ResolveInit /\ [][process_dependency_resolve]_vars

\* ---------------------------------------------- is_executable_binary alone
\* the first four bytes of the files classified: the four magic sequences,
\* each of them with one byte off, and two that are no magic at all
ClassifiedHeads ==
    {MAGIC_FAT, CIGAM_FAT, MAGIC_64, CIGAM_64,
     <<202, 254, 186, 191>>, <<190, 186, 254, 203>>, <<254, 237, 250, 206>>,
     <<206, 250, 237, 254>>, <<0, 0, 0, 0>>, <<127, 69, 76, 70>>}

\* the files of 0 to MaxFileLen bytes that begin like one of ClassifiedHeads
ClassifiedFiles ==
    {FileNode(n, SubSeq(h, 1, IF n < 4 THEN n ELSE 4), 0, <<>>, <<>>) :
        n \in 0..MaxFileLen, h \in ClassifiedHeads}

\* the file the tree copy has just copied, before it is classified
ClassifiedPath == SourcePath \o <<"f">>

ClassifyInit ==
    \E n \in ClassifiedFiles :
        /\ previous = "none"
        /\ notarization = NotWaiting
        /\ fs = [q \in {<<>>, <<"src">>, SourcePath, ClassifiedPath} |->
                    IF q = ClassifiedPath THEN n ELSE DirNode]
        /\ fs0 = fs
        /\ options = [source_path |-> SourcePath, out_dir |-> OutDir,
                      delete_existing_bundle |-> FALSE]
        /\ pc = "classify"
        /\ err = ""
        /\ out_path = <<>>
        /\ executables = <<>>
        /\ processed_libraries = EmptyMap
        /\ dirs = <<>>
        /\ queue = <<>>
        /\ mods = <<>>
        /\ dep = NoDep
        /\ rpaths = <<>>
        /\ log = <<>>

\* process_dir, lines 173-178: the copied file is classified and, if it is a
\* linked binary, noted
process_dir_classify ==
    /\ pc = "classify"
    /\ pc' = "classified"
    /\ executables' =
         IF is_executable_binary(fs[canonicalize(fs, ClassifiedPath)])
         THEN Append(executables, ClassifiedPath)
         ELSE executables
    /\ UNCHANGED <<fs, fs0, previous, notarization, options, err, out_path, processed_libraries,
                   dirs, queue, mods, dep, rpaths, log>>

ClassifySpec == ClassifyInit /\ [][process_dir_classify]_vars

\* ------------------------------------------------- Notarize::notarize_wait
\* the statuses the notarization service reports for a request: the two
\* that end the wait and two that do not
TerminalStatuses == {"success", "invalid"}
RemoteStatuses == TerminalStatuses \cup {"in progress", "unknown"}

\* what one poll comes back with: altool fails, its output is no status
\* response, or it is the status the service holds
PollOutcomes == {"ToolError", "Malformed", "Status"}

\* notarize_wait was called (line 125): attempt = 0, nothing polled yet; the
\* service holds some status for the request and slept counts the sleeps
\* of PollInterval seconds since the last poll
NotarizeInit ==
    \E r \in RemoteStatuses :
        /\ previous = "none"
        /\ notarization = [state |-> "waiting", remote |-> r, attempt |-> 0,
                           status |-> "", slept |-> 0]
        /\ fs = [q \in {<<>>} |-> DirNode]
        /\ fs0 = fs
        /\ options = [source_path |-> SourcePath, out_dir |-> OutDir,
                      delete_existing_bundle |-> FALSE]
        /\ pc = "sleep"
        /\ err = ""
        /\ out_path = <<>>
        /\ executables = <<>>
        /\ processed_libraries = EmptyMap
        /\ dirs = <<>>
        /\ queue = <<>>
        /\ mods = <<>>
        /\ dep = NoDep
        /\ rpaths = <<>>
        /\ log = <<>>

NotarizeFrame ==
    UNCHANGED <<fs, fs0, previous, options, out_path, executables,
                processed_libraries, dirs, queue, mods, dep, rpaths, log>>

\* line 129: sleep(Duration::from_secs(20)) returns
notarize_wait_sleep ==
    /\ pc = "sleep"
    /\ pc' = "poll"
    /\ notarization' = [notarization EXCEPT !.slept = @ + PollInterval]
    /\ UNCHANGED err
    /\ NotarizeFrame

\* attempt += 1 (line 141); the count is kept up to MaxAttempts, it only
\* goes into the trace output
next_attempt(n) == IF n < MaxAttempts THEN n + 1 ELSE n

\* lines 145-153: the status read from the response decides
notarize_wait_status(attempt, status) ==
    /\ notarization' = [notarization EXCEPT !.attempt = attempt,
                                            !.status = status, !.slept = 0]
    /\ IF status = "invalid" THEN Fail("NotarizationFailure")
       ELSE IF status = "success" THEN pc' = "done" /\ err' = err
       ELSE pc' = "sleep" /\ err' = err

\* lines 143-145: run_command, the plist parser or get_status_from_plist
\* returns an error, or the status is there
notarize_wait_polled(attempt, outcome) ==
    IF outcome = "ToolError"
    THEN /\ Fail("ToolError")
         /\ notarization' = [notarization EXCEPT !.attempt = attempt, !.slept = 0]
    ELSE IF outcome = "Malformed"
    THEN /\ Fail("OtherError")
         /\ notarization' = [notarization EXCEPT !.attempt = attempt, !.slept = 0]
    ELSE notarize_wait_status(attempt, notarization.remote)

\* lines 130-153: one poll of the status with altool --notarization-info
notarize_wait_poll ==
    /\ pc = "poll"
    /\ \E outcome \in PollOutcomes :
         notarize_wait_polled(next_attempt(notarization.attempt), outcome)
    /\ NotarizeFrame

\* the service goes on with the request: from a status that is not final to
\* any other status
service_step ==
    /\ notarization.state = "waiting"
    /\ pc \in {"sleep", "poll"}
    /\ notarization.remote \notin TerminalStatuses
    /\ \E r \in RemoteStatuses \ {notarization.remote} :
         notarization' = [notarization EXCEPT !.remote = r]
    /\ UNCHANGED <<pc, err>>
    /\ NotarizeFrame

NotarizeNext == notarize_wait_sleep \/ notarize_wait_poll \/ service_step

\* the thread of notarize_wait keeps running: sleep returns and a started
\* poll comes back; nothing makes the service ever decide
NotarizeSpec ==
    /\ NotarizeInit
    /\ [][NotarizeNext]_vars
    /\ WF_vars(notarize_wait_sleep)
    /\ WF_vars(notarize_wait_poll)

\* ------------------------------------- the source's own directory as out_dir
\* the bundles perform is called on with out_dir naming the directory the
\* source bundle lies in, with and without delete_existing_bundle
OverlapWorlds ==
    {[w EXCEPT !.del = d] : w \in SingleWorlds \cup LinkWorlds, d \in BOOLEAN}

\* the state when perform is called on the world w with the output
\* directory out_dir, prev being what is known of the call before
perform_called(w, out_dir, prev) ==
    /\ previous = prev
    /\ notarization = NotWaiting
    /\ fs = BuildFs(w)
    /\ fs0 = fs
    /\ options = [source_path |-> w.source, out_dir |-> out_dir,
                  delete_existing_bundle |-> w.del]
    /\ pc = "start"
    /\ err = ""
    /\ out_path = <<>>
    /\ executables = <<>>
    /\ processed_libraries = EmptyMap
    /\ dirs = <<>>
    /\ queue = <<>>
    /\ mods = <<>>
    /\ dep = NoDep
    /\ rpaths = <<>>
    /\ log = <<>>

OverlapInit == \E w \in OverlapWorlds : perform_called(w, parent(w.source), "none")

\* perform on any out_dir: one apart from the source, or the source's own
OverlapSpec == (InitIn(RetryWorlds) \/ OverlapInit) /\ [][Next]_vars

\* ------------------------------------------ the same bundle, bundled again
\* bundles with a second executable beside the main one or in a directory
\* of its own; both name libA.dylib, which names the system's libraries or
\* @rpath/libR.dylib, and libR.dylib lies beside the main executable
OrderWorlds ==
    {[BaseWorld EXCEPT !.e1 = <<absA, rpR>>, !.helper = TRUE, !.e2 = <<absA>>,
                       !.la = l, !.helperdir = h, !.old = FALSE] :
        l \in {<<sysL>>, <<rpR>>}, h \in {"MacOS", "Helpers"}}

\* how a call of perform ended: whether it ever ended, the error it returned
\* ("" for Ok), and after Ok the keys of processed_libraries and the entries
\* of the output's Contents/Frameworks
Outcome(ended, e, libs, f, outp) ==
    [ended |-> ended, err |-> e,
     keys |-> IF e = "" THEN DOMAIN libs ELSE {},
     roots |-> IF e = "" /\ is_dir(f, frameworks_path(outp))
               THEN Children(f, frameworks_path(outp)) ELSE {}]
NoOutcome == Outcome(FALSE, "none", EmptyMap, fs0, <<>>)

OrderInit == \E w \in OrderWorlds : perform_called(w, OutDir, NoOutcome)

\* main, line 58: the tool is run once more on the same source bundle and
\* the same libraries, the output directory being as it was before the
\* first run; read_dir may now yield the entries in another order
perform_anew ==
    /\ pc \in {"done", "failed"}
    /\ previous' = Outcome(TRUE, err, processed_libraries, fs, out_path)
    /\ fs' = fs0
    /\ pc' = "start"
    /\ err' = ""
    /\ out_path' = <<>>
    /\ executables' = <<>>
    /\ processed_libraries' = EmptyMap
    /\ dirs' = <<>>
    /\ queue' = <<>>
    /\ mods' = <<>>
    /\ dep' = NoDep
    /\ rpaths' = <<>>
    /\ log' = <<>>
    /\ UNCHANGED <<fs0, options, notarization>>

OrderNext == Next \/ perform_anew

OrderSpec == OrderInit /\ [][OrderNext]_vars

\* ------------------------------------------------------------ properties
LogIdx == 1..Len(log)
Keys == DOMAIN processed_libraries
\* the successful copies made for the new reference k, the copies that went
\* to the path p, and the introspections of the library bundled as k
Copies(k) == {i \in LogIdx : log[i].op = "copy" /\ log[i].ref = k}
CopiesTo(p) == {i \in LogIdx : log[i].op = "copy" /\ log[i].path = p}
Loads(k) == {i \in LogIdx : log[i].op = "otool" /\ log[i].ref = k}
\* the modules process_module was called on
Walked == {i \in LogIdx : log[i].op = "otool"}
\* the dependency list of the walked module of the log entry e, as loaded
WalkedDeps(e) ==
    IF e.ref = NoRef THEN load_executable(otool(fs0, e.path)).dependencies
    ELSE load_library(otool(fs0, e.path)).dependencies
\* the string of the reference begins with "/usr/", "/lib/" or "/System/"
StartsWithSystemDir(m) ==
    m.abs /\ Len(m.comps) >= 2 /\ m.comps[1] \in {"usr", "lib", "System"}
\* the string of the reference begins with "@rpath/"
IsRpathRef(m) == ~m.abs /\ Len(m.comps) >= 2 /\ m.comps[1] = "@rpath"
\* the file of the real path p, as it was when the run began
Bytes0(p) == fs0[canonicalize(fs0, p)]
\* the run is beyond the tree copy and has not failed
TreeCopied ==
    pc \in {"executables", "module", "load", "bundle", "identity", "rpath", "done"}
\* the dependency the module on top is about to hand to process_dependency
AtDependency == pc = "module" /\ Last(mods).i <= Len(Last(mods).dependencies)
CurrentDependency == Last(mods).dependencies[Last(mods).i]
\* the executables that name the reference d, in the order they were walked
WalkedNaming(d) ==
    {i \in Walked : log[i].ref = NoRef /\ d \in Range(WalkedDeps(log[i]))}

\* C1: two executables that share a local dependency lead to exactly one
\* copy of its root under Contents/Frameworks, whatever the order in which
\* the executables are processed: no path under Contents/Frameworks is copied
\* to twice, no new reference is copied for twice, and at the end of a
\* successful run every new reference was copied for exactly once.
C1_SharedDependencyCopiedOnce ==
    /\ \A i, j \in LogIdx :
         log[i].op = "copy" /\ log[j].op = "copy" /\ log[i].path = log[j].path
             => i = j
    /\ \A k \in Keys : Cardinality(Copies(k)) <= 1
    /\ pc = "done" => \A k \in Keys : Cardinality(Copies(k)) = 1

\* a successful run in which Helper was walked before MyApp, both name
\* /opt/lib/libA.dylib, and libA.dylib was copied once
C1_Witness ==
    /\ pc = "done"
    /\ Cardinality(WalkedNaming(absA)) = 2
    /\ \E i \in WalkedNaming(absA) :
         /\ log[i].path = MacOS \o <<"Helper">>
         /\ \A j \in WalkedNaming(absA) : i <= j
    /\ Cardinality(CopiesTo(join(frameworks_path(out_path), <<"libA.dylib">>))) = 1

\* the new reference of r is processed already and the file r resolved to
\* differs in its bytes from the source recorded for it
C2_Conflict(r) ==
    /\ r.err = ""
    /\ r.new_module_path \in Keys
    /\ exists(fs, r.resolved)
    /\ exists(fs, processed_libraries[r.new_module_path])
    /\ fs[canonicalize(fs, r.resolved)]
           # fs[canonicalize(fs, processed_libraries[r.new_module_path])]

\* the step that hands r to process_dependency fails on a conflict and
\* otherwise leaves r's source byte-identical to the one recorded for its key
C2_Step(d, r) ==
    /\ C2_Conflict(r) =>
         /\ pc' = "failed" /\ err' = "version-conflict"
         /\ fs' = fs /\ processed_libraries' = processed_libraries
         /\ log' = Append(log, Event("resolve", <<>>, d, <<>>))
    /\ pc' # "failed" =>
         /\ r.new_module_path \in DOMAIN processed_libraries'
         /\ fs[canonicalize(fs, r.resolved)]
                = fs[canonicalize(fs, processed_libraries'[r.new_module_path])]

\* C2: a dependency whose new reference is a key of processed_libraries
\* already while its resolved source is not byte-identical to the source
\* recorded for the key makes the run fail with the version conflict, and
\* nothing is copied, edited or recorded for it; every reference that is
\* accepted for a key has a source byte-identical to the recorded one, and
\* the recorded sources keep the bytes they had when the run began.
C2_ConflictIsFatal ==
    /\ [](\A k \in Keys :
            exists(fs, processed_libraries[k])
                => fs[canonicalize(fs, processed_libraries[k])]
                       = Bytes0(processed_libraries[k]))
    /\ [][AtDependency /\ ~StartsWithSystemDir(CurrentDependency)
             => C2_Step(CurrentDependency,
                        locate_dependency(fs, rpaths, CurrentDependency))]_vars

\* the run failed on /opt2/lib/libA.dylib, which differs from /opt/lib's
C2_Witness ==
    /\ pc = "failed" /\ err = "version-conflict"
    /\ Keys # {}
    /\ \E i \in LogIdx : log[i].op = "resolve" /\ log[i].ref = absA2
    /\ Bytes0(absA2.comps) # Bytes0(absA.comps)

\* perform stands where one of its steps can be taken
CanStep ==
    \/ pc \in {"start", "prepare", "executables"}
    \/ pc = "copy" /\ dirs # <<>>
    \/ pc \in {"module", "rpath"} /\ mods # <<>>
    \/ pc \in {"load", "bundle"} /\ dep # NoDep
    \/ pc = "identity" /\ mods # <<>> /\ Last(mods).library

\* C3: perform terminates on every dependency graph, cyclic ones included,
\* and no new reference is introspected, copied or walked a second time;
\* until it has returned perform always has a step to take.
C3_TerminatesWalkingOnce ==
    /\ [](\A i, j \in LogIdx :
            /\ log[i].op = log[j].op
            /\ log[i].op \in {"otool", "copy"}
            /\ log[i].ref = log[j].ref
            /\ log[i].ref # NoRef
            => i = j)
    /\ [](\A i, j \in 1..Len(mods) :
            mods[i].library /\ mods[j].library
                /\ mods[i].dep.new_module_path = mods[j].dep.new_module_path
            => i = j)
    /\ [](Returned \/ CanStep)
    /\ <>Returned

\* a successful run over the cycle libA -> libB -> libA: both were walked
C3_Witness ==
    /\ pc = "done"
    /\ absB \in Range(Bytes0(absA.comps).deps)
    /\ absA \in Range(Bytes0(absB.comps).deps)
    /\ Cardinality(Loads(rpA)) = 1
    /\ Cardinality(Loads(RpathRef(<<"libB.dylib">>))) = 1

\* the reference d of the module at target is k already, or an instruction
\* on the module rewrites d to k
C4_Rewritten(target, d, k) ==
    \/ d = k
    \/ \E j \in LogIdx :
         log[j].op = "change" /\ log[j].path = target /\ <<d, k>> \in Range(log[j].arg)

\* C4: after a successful run every discovered executable was walked, every
\* non-system reference of every walked module equals or was rewritten to an
\* "@rpath/..." reference that is a key of processed_libraries, and the file of
\* every key is there under the output's Contents/Frameworks.
C4_SelfContainedAtCompletion ==
    pc = "done" =>
        /\ \A n \in 1..Len(executables) :
             \E i \in Walked :
                 log[i].ref = NoRef /\ log[i].path = canonicalize(fs0, executables[n])
        /\ \A i \in Walked :
             \A d \in Range(WalkedDeps(log[i])) :
                 ~StartsWithSystemDir(d) =>
                     \E k \in Keys : IsRpathRef(k) /\ C4_Rewritten(log[i].arg, d, k)
        /\ \A k \in Keys :
             /\ IsRpathRef(k)
             /\ is_file(fs, join(frameworks_path(out_path), Tail(k.comps)))

\* a successful run with two bundled libraries, one of them reached through
\* the other, and at least two modules rewritten
C4_Witness ==
    /\ pc = "done"
    /\ Cardinality(Keys) >= 2
    /\ \E i, j \in LogIdx :
         /\ log[i].op = "change" /\ log[j].op = "change"
         /\ log[i].path # log[j].path
         /\ starts_with(log[j].path, frameworks_path(out_path))

\* C5: a reference that begins with "/usr/", "/lib/" or "/System/" is never
\* resolved or copied, is on neither side of a change pair, and is no key of
\* processed_libraries; the step of a module over such a reference touches
\* neither the filesystem nor processed_libraries nor issues anything.
C5_SystemDependenciesExcluded ==
    /\ [](/\ \A i \in LogIdx :
               /\ ~StartsWithSystemDir(log[i].ref)
               /\ log[i].op = "change" =>
                    \A n \in 1..Len(log[i].arg) :
                        /\ ~StartsWithSystemDir(log[i].arg[n][1])
                        /\ ~StartsWithSystemDir(log[i].arg[n][2])
          /\ \A k \in Keys : ~StartsWithSystemDir(k))
    /\ [][AtDependency /\ StartsWithSystemDir(CurrentDependency)
             => /\ UNCHANGED <<fs, processed_libraries, log, pc, dep>>
                /\ mods' = [mods EXCEPT ![Len(mods)].i = @ + 1]]_vars

\* a successful run that walked a library naming /lib/libc.dylib and an
\* executable naming /usr/lib/libSystem.dylib beside a local dependency
C5_Witness ==
    /\ pc = "done"
    /\ \E i \in Walked : log[i].ref # NoRef /\ sysL \in Range(WalkedDeps(log[i]))
    /\ \E i \in Walked :
         /\ log[i].ref = NoRef
         /\ sysU \in Range(WalkedDeps(log[i]))
         /\ absA \in Range(WalkedDeps(log[i]))

\* where the discovered executable x is in the output
C6_Target(x) == join(out_path, diff_paths(x, options.source_path))
C6_AddRpaths(p) == {i \in LogIdx : log[i].op = "add_rpath" /\ log[i].path = p}
C6_Edits(p) ==
    {i \in LogIdx : log[i].op \in {"change", "id", "add_rpath"} /\ log[i].path = p}
\* the dependency list of the executable x names a non-system reference
C6_HasLocal(x) ==
    \E d \in Range(load_executable(otool(fs0, x)).dependencies) :
        ~StartsWithSystemDir(d)

SkippedByTreeCopy(p) ==
    \E n \in Len(options.source_path)..(Len(p) - 1) :
        n >= 1 /\ p[n] = "Contents" /\ p[n + 1] = "Frameworks"
BundleLinks ==
    {p \in DOMAIN fs0 :
        /\ fs0[p].kind = "link"
        /\ starts_with(p, options.source_path)
        /\ ~SkippedByTreeCopy(p)}
\* the links whose resolved target lies inside the source bundle, and those
\* whose target resolves outside of it
InsideLinks ==
    {p \in BundleLinks :
        /\ exists(fs0, p)
        /\ starts_with(canonicalize(fs0, p), canonicalize(fs0, options.source_path))}
OutsideLinks ==
    {p \in BundleLinks :
        /\ exists(fs0, p)
        /\ ~starts_with(canonicalize(fs0, p), canonicalize(fs0, options.source_path))}
\* the place in the output of the entry p of the source bundle
InOutput(p) ==
    join(out_path, SubSeq(p, Len(options.source_path) + 1, Len(p)))
\* the tree copy returned an error
TreeCopyFailed == pc = "failed" /\ dirs # <<>>

\* C7 as the specification states it: a symbolic link of the source bundle
\* whose resolved target is inside the bundle never makes the tree copy fail,
\* and after the tree copy the output holds a link with the same text at the
\* same place, in whatever order the entries are enumerated.
C7_InsideLinkPreserved ==
    InsideLinks # {} =>
        /\ ~TreeCopyFailed
        /\ TreeCopied =>
             \A p \in InsideLinks :
                 /\ lexists(fs, InOutput(p))
                 /\ fs[EntryPath(fs, InOutput(p))] = fs0[p]

\* the contents of the real directory t are at o in the output: every
\* directory as a directory, every file with its bytes, every link as a link
\* or replaced by what it resolves to
C8_Mirrored(t, o) ==
    \A q \in Subtree(fs0, t) :
        /\ lexists(fs, join(o, SubSeq(q, Len(t) + 1, Len(q))))
        /\ fs0[q].kind = "dir" => is_dir(fs, join(o, SubSeq(q, Len(t) + 1, Len(q))))
        /\ fs0[q].kind = "file" =>
              fs[EntryPath(fs, join(o, SubSeq(q, Len(t) + 1, Len(q))))] = fs0[q]

\* C8: after the tree copy, where the source bundle has a symbolic link whose
\* target resolves outside the bundle the output has no symbolic link but a
\* copy of the resolved target: the file with its bytes, or the directory
\* with all that is in it.
C8_OutsideLinkReplaced ==
    TreeCopied =>
        \A p \in OutsideLinks :
            /\ lexists(fs, InOutput(p))
            /\ fs[EntryPath(fs, InOutput(p))].kind # "link"
            /\ Bytes0(p).kind = "file" => fs[EntryPath(fs, InOutput(p))] = Bytes0(p)
            /\ Bytes0(p).kind = "dir" =>
                 /\ fs[EntryPath(fs, InOutput(p))].kind = "dir"
                 /\ C8_Mirrored(canonicalize(fs0, p), InOutput(p))

\* the tree copy is over for a bundle with a link to the directory /ext/dir:
\* the output has a directory there, with the file of /ext/dir in it
C8_Witness ==
    /\ TreeCopied
    /\ \E p \in OutsideLinks :
         /\ canonicalize(fs0, p) = <<"ext", "dir">>
         /\ is_dir(fs, InOutput(p))
         /\ is_file(fs, join(InOutput(p), <<"f">>))

\* the resolved file r is the main binary of a framework, directly below
\* X.framework or below X.framework/Versions/<version>
C9_InFramework(r) ==
    \/ Len(r) >= 2 /\ EndsWithFramework(r[Len(r) - 1])
    \/ Len(r) >= 4 /\ r[Len(r) - 2] = "Versions" /\ EndsWithFramework(r[Len(r) - 3])
C9_FrameworkOf(r) ==
    IF EndsWithFramework(r[Len(r) - 1]) THEN Front(r) ELSE SubSeq(r, 1, Len(r) - 3)
\* every entry of the tree at root is at the same place below to, a
\* directory as a directory, a file as a file, a link as a link of the same
\* text
C9_TreeCopied(root, to) ==
    \A q \in Subtree(fs0, root) :
        /\ lexists(fs, join(to, SubSeq(q, Len(root) + 1, Len(q))))
        /\ fs[EntryPath(fs, join(to, SubSeq(q, Len(root) + 1, Len(q))))].kind
               = fs0[q].kind
        /\ fs0[q].kind = "link" =>
               fs[EntryPath(fs, join(to, SubSeq(q, Len(root) + 1, Len(q))))] = fs0[q]

\* C9: a dependency that resolves to the main binary of a framework is
\* bundled by copying the whole X.framework directory to
\* Contents/Frameworks/X.framework, with every symbolic link in it made anew
\* with its text.
C9_FrameworkCopiedWhole ==
    \A k \in Keys :
        C9_InFramework(processed_libraries[k]) =>
            \A i \in Copies(k) :
                /\ log[i].arg = canonicalize(fs0, C9_FrameworkOf(processed_libraries[k]))
                /\ log[i].path =
                       join(frameworks_path(out_path),
                            <<file_name(C9_FrameworkOf(processed_libraries[k]))>>)
                /\ C9_TreeCopied(log[i].arg, log[i].path)

\* X.framework was bundled for a dependency on X.framework/Versions/A/X:
\* Versions/Current is a link in the output, Info.plist is there
C9_Witness ==
    /\ pc = "done"
    /\ \E k \in Keys :
         /\ processed_libraries[k] = fwV.comps
         /\ Copies(k) # {}
    /\ lexists(fs, join(frameworks_path(out_path), <<"X.framework", "Versions", "Current">>))
    /\ fs[join(frameworks_path(out_path), <<"X.framework", "Versions", "Current">>)]
           = LinkNode(FALSE, <<"A">>)
    /\ is_file(fs, join(frameworks_path(out_path),
                        <<"X.framework", "Versions", "A", "Info.plist">>))

\* the linked binaries of the source bundle
C10_Binaries ==
    {p \in DOMAIN fs0 :
        /\ starts_with(p, options.source_path)
        /\ fs0[p].kind = "file"
        /\ is_executable_binary(fs0[p])}
\* the non-system references of a dependency list, in order
C10_IsLocal(d) == ~StartsWithSystemDir(d)
C10_Local(deps) == SelectSeq(deps, C10_IsLocal)
\* what the run did beside the tree copy: the log without the reads
C10_IsMutation(e) == e.op \notin {"otool", "resolve"}
C10_Mutations == SelectSeq(log, C10_IsMutation)
C10_IsNotMkdir(e) == e.op # "mkdir"
\* a successful run on a bundle whose one linked binary exe has the absolute
\* reference d to a loose dylib as its one local dependency, the dylib having
\* system dependencies only
C10_Case(exe, d) ==
    /\ pc = "done"
    /\ C10_Binaries = {exe}
    /\ C10_Local(fs0[exe].deps) = <<d>>
    /\ d.abs
    /\ is_file(fs0, d.comps)
    /\ ~C9_InFramework(d.comps)
    /\ C10_Local(Bytes0(d.comps).deps) = <<>>
\* the four instructions of C10 for the executable exe, in the output
\* at target, and its dependency d
C10_Copy(d) ==
    Event("copy", join(frameworks_path(out_path), <<Last(d.comps)>>),
          RpathRef(<<Last(d.comps)>>), canonicalize(fs0, d.comps))
C10_Id(d) ==
    Event("id", join(frameworks_path(out_path), <<Last(d.comps)>>),
          RpathRef(<<Last(d.comps)>>), <<>>)
C10_Change(target, d) ==
    Event("change", target, NoRef, <<<<d, RpathRef(<<Last(d.comps)>>)>>>>)
C10_AddRpath(target) ==
    Event("add_rpath", target, NoRef, <<"@executable_path", "..", "Frameworks">>)
C10_Mkdir == Event("mkdir", frameworks_path(out_path), NoRef, <<>>)

C11_Target == join(options.out_dir, <<file_name(options.source_path)>>)
C11_OldEntries == Subtree(fs0, EntryPath(fs0, C11_Target))
\* both paths pass the validation and the target exists (Path::exists)
C11_TargetExists ==
    /\ is_dir(fs0, options.source_path)
    /\ is_dir(fs0, options.out_dir)
    /\ exists(fs0, C11_Target)
\* the filesystem g is f with nothing but an empty directory at the target
C11_FreshOutput(f, g) ==
    /\ EntryPath(f, C11_Target) \in DOMAIN g
    /\ g[EntryPath(f, C11_Target)] = DirNode
    /\ Subtree(g, EntryPath(f, C11_Target)) = {EntryPath(f, C11_Target)}
    /\ \A q \in DOMAIN f \ Subtree(f, EntryPath(f, C11_Target)) :
         q \in DOMAIN g /\ g[q] = f[q]
    /\ DOMAIN g \subseteq DOMAIN f \cup {EntryPath(f, C11_Target)}

C12_Phase(p) ==
    CASE p = "start" -> 1
      [] p = "prepare" -> 2
      [] p = "copy" -> 3
      [] p \in {"executables", "module", "load", "bundle", "identity", "rpath"} -> 4
      [] p = "done" -> 5
      [] OTHER -> 0
\* the entry p of the source bundle is one the tree copy leaves out: a
\* Contents/Frameworks or something below one
C12_LeftOut(p) ==
    \E n \in Len(options.source_path)..(Len(p) - 1) :
        n >= 1 /\ p[n] = "Contents" /\ p[n + 1] = "Frameworks"
\* every entry of the source bundle that the tree copy does not leave out has
\* its counterpart in the output
C12_WholeTreeCopied ==
    \A p \in DOMAIN fs0 :
        starts_with(p, options.source_path) /\ ~C12_LeftOut(p)
            => lexists(fs, InOutput(p))

\* C12: a run starts in ValidatePaths and moves from each phase only to the
\* next one (or ends on an error), ProcessExecutable going on for zero or more
\* executables before Done; the filesystem changes only after both paths were
\* found to be directories; and nothing is resolved, introspected, copied for
\* a dependency, recorded or edited before process_dir has returned for the
\* whole source bundle with every entry it does not leave out in the output.
C12_PhaseOrder ==
    /\ [](C12_Phase(pc) \in 0..5)
    /\ [][/\ C12_Phase(pc') \in {C12_Phase(pc), C12_Phase(pc) + 1, 0}
          /\ C12_Phase(pc) \in {0, 5} => pc' = pc
          /\ C12_Phase(pc) = 1 => fs' = fs]_vars
    /\ [](fs # fs0 =>
            /\ is_dir(fs0, options.source_path) /\ is_dir(fs0, options.out_dir)
            /\ C12_Phase(pc) \in {0, 3, 4, 5})
    /\ [](C12_Phase(pc) \in {1, 2, 3} \/ dirs # <<>> =>
            log = <<>> /\ Keys = {} /\ mods = <<>> /\ dep = NoDep)
    /\ [](C12_Phase(pc) \in {4, 5} \/ log # <<>> =>
            dirs = <<>> /\ C12_WholeTreeCopied)
    /\ [][log = <<>> /\ log' # <<>> => C12_Phase(pc) = 4 /\ fs' = fs]_vars

\* a run that went through every phase: it is done, the filesystem changed,
\* a dependency was copied and link edits were issued
C12_Witness ==
    /\ pc = "done"
    /\ fs # fs0
    /\ \E i \in LogIdx : log[i].op = "copy"
    /\ \E i \in LogIdx : log[i].op = "add_rpath"

\* a step in which perform returns an error
C13_Fails == pc # "failed" /\ pc' = "failed"
\* the root of the dependency under way is a directory and its place in
\* Contents/Frameworks is taken: the copy cannot succeed
C13_CopyCannotSucceed ==
    /\ pc = "bundle"
    /\ is_dir(fs, dep.root)
    /\ lexists(fs, join(frameworks_path(out_path), <<file_name(dep.root)>>))
\* the next executable is one for which otool -L lists nothing
C13_NothingListed ==
    /\ pc = "executables" /\ queue # <<>>
    /\ exists(fs, Head(queue))
    /\ fs[canonicalize(fs, Head(queue))].id = <<>>
    /\ fs[canonicalize(fs, Head(queue))].deps = <<>>

\* C13: the first failure ends the run: a dependency that cannot be resolved,
\* a copy that cannot succeed and an introspection that lists nothing each
\* make perform return the error in that very step; the failing step issues
\* at most the one instruction that failed and records and discovers nothing;
\* and once perform has returned an error nothing changes any more: no tool
\* is run, the filesystem, the error and the work left over stay as they are.
C13_FailFast ==
    /\ [](pc = "failed" <=> err # "")
    /\ [][pc = "failed" => UNCHANGED vars]_vars
    /\ [][C13_Fails =>
            /\ err = "" /\ err' # ""
            /\ Len(log') <= Len(log) + 1
            /\ SubSeq(log', 1, Len(log)) = log
            /\ UNCHANGED <<processed_libraries, executables, mods, dirs, out_path>>
                 \/ pc \in {"prepare", "rpath"}
            /\ err' \in {"source-path", "out-dir", "target-exists", "PathResolve",
                         "version-conflict", "ToolError", "otool-output"}
                 => fs' = fs]_vars
    /\ [][/\ AtDependency /\ ~StartsWithSystemDir(CurrentDependency)
          /\ resolve(fs, rpaths, CurrentDependency) = NoPath
          => /\ pc' = "failed" /\ err' = "PathResolve"
             /\ UNCHANGED <<fs, processed_libraries>>]_vars
    /\ [][C13_CopyCannotSucceed => pc' = "failed" /\ err' = "Copy"]_vars
    /\ [][C13_NothingListed => pc' = "failed" /\ fs' = fs]_vars

\* perform returned the resolution error for the second dependency of the
\* first executable: the first dependency is bundled, the second executable
\* is left unprocessed
C13_Witness ==
    /\ pc = "failed" /\ err = "PathResolve"
    /\ queue # <<>>
    /\ \E i \in LogIdx : log[i].op = "copy"
    /\ log[Len(log)] = Event("resolve", <<>>, absM, <<>>)

\* C14: a run that fails after it made the output directory leaves that
\* directory where it is; a call of perform that follows such a run with the
\* same paths finds the target there; without delete_existing_bundle it
\* returns the pre-existing-target error and changes nothing; with the option
\* it removes what the failed run left and goes on from an empty output
\* directory, everything else being as the failed run left it.
C14_PartialOutputAndRetry ==
    /\ [](failed_partway => out_path = C11_Target /\ is_dir(fs, out_path))
    /\ [][failed_partway /\ pc' = "start" =>
            /\ fs' = fs /\ fs0' = fs /\ previous' = "partial"
            /\ options'.source_path = options.source_path
            /\ options'.out_dir = options.out_dir]_vars
    /\ [](previous = "partial" => C11_TargetExists /\ is_dir(fs0, C11_Target))
    /\ [](previous = "partial" /\ ~options.delete_existing_bundle =>
            /\ pc \in {"start", "prepare", "failed"}
            /\ pc = "failed" => err = "target-exists"
            /\ fs = fs0 /\ log = <<>>)
    /\ [][previous = "partial" /\ options.delete_existing_bundle /\ pc = "prepare" =>
            /\ pc' = "copy"
            /\ C11_FreshOutput(fs, fs')
            /\ dirs' = <<DirFrame(fs', options.source_path, C11_Target)>>]_vars

\* the second call with the option, after a first one that had bundled a
\* library and then failed: the tree copy is under way and the library of
\* the first call is gone from the output
C14_Witness ==
    /\ previous = "partial"
    /\ options.delete_existing_bundle
    /\ pc = "copy"
    /\ is_file(fs0, join(frameworks_path(C11_Target), <<"libA.dylib">>))
    /\ ~lexists(fs, frameworks_path(C11_Target))
    /\ \E fr \in Range(dirs) : fr.todo # {}

\* the entries of the source bundle that are a Contents/Frameworks or are
\* below one
C15_Reserved ==
    {p \in DOMAIN fs0 : starts_with(p, options.source_path) /\ C12_LeftOut(p)}
\* what is directly in the Contents/Frameworks of the output
C15_Bundled ==
    IF is_dir(fs, frameworks_path(out_path))
    THEN {join(frameworks_path(out_path), <<n>>) :
            n \in Children(fs, canonicalize(fs, frameworks_path(out_path)))}
    ELSE {}

C16_Resolving(k) ==
    {i \in LogIdx : log[i].op \in {"otool", "copy", "id"} /\ log[i].ref = k}

\* C16 as the specification states it: a new reference is a key of
\* processed_libraries only once its root was copied.
C16_KeyOnlyAfterCopy == \A k \in Keys : Copies(k) # {}

\* C16, amended: a new reference becomes a key of processed_libraries when
\* the lookup misses, before the dependency is introspected, its root copied
\* and its identity set; all of these are done for references that are keys
\* already; a key whose root is not copied yet is the one of the
\* process_dependency under way, or the one that was under way when the run
\* failed; and a key is never removed nor its source changed.
C16_KeyBeforeResolution ==
    /\ [](\A i \in LogIdx :
            log[i].op \in {"otool", "copy", "id"} /\ log[i].ref # NoRef
                => log[i].ref \in Keys)
    /\ [](\A k \in Keys :
            Copies(k) = {} =>
                \/ pc \in {"load", "bundle"} /\ dep.new_module_path = k
                \/ pc = "failed" /\ \A j \in Keys : Copies(j) = {} => j = k)
    /\ [][\A k \in DOMAIN processed_libraries' :
            k \notin Keys =>
                /\ pc' = "load" /\ dep'.new_module_path = k
                /\ dep'.resolved = processed_libraries'[k]
                /\ \A i \in 1..Len(log') :
                     log'[i].op \in {"otool", "copy", "id"} => log'[i].ref # k]_vars
    /\ [][\A k \in Keys :
            /\ k \in DOMAIN processed_libraries'
            /\ processed_libraries'[k] = processed_libraries[k]]_vars

\* the library was introspected and its root is about to be copied: its new
\* reference is a key already
C16_Witness ==
    /\ pc = "bundle"
    /\ dep.new_module_path \in Keys
    /\ Copies(dep.new_module_path) = {}
    /\ Loads(dep.new_module_path) # {}

\* the new reference of r is a key already and the file r resolved to is
\* byte for byte the one recorded for the key
C17_Hit(r) ==
    /\ r.err = ""
    /\ r.new_module_path \in Keys
    /\ exists(fs, r.resolved)
    /\ exists(fs, processed_libraries[r.new_module_path])
    /\ fs[canonicalize(fs, r.resolved)]
           = fs[canonicalize(fs, processed_libraries[r.new_module_path])]
\* the step of the module on top over the reference d that hits with r: only
\* the resolution is logged, nothing is copied or recorded, no module is
\* entered, and the module goes on to its next dependency with the pair
\* (d, new reference) added to its batch if the two differ
C17_Step(d, r) ==
    /\ UNCHANGED <<fs, processed_libraries, pc, err, dep, executables, queue>>
    /\ log' = Append(log, Event("resolve", <<>>, d, <<>>))
    /\ Len(mods') = Len(mods)
    /\ Front(mods') = Front(mods)
    /\ Last(mods').i = Last(mods).i + 1
    /\ Last(mods').paths_to_change =
           IF r.new_module_path # d
           THEN Append(Last(mods).paths_to_change, <<d, r.new_module_path>>)
           ELSE Last(mods).paths_to_change
\* the change instructions that rewrite some reference to k
C17_ChangesTo(k) ==
    {i \in LogIdx :
        log[i].op = "change" /\ \E n \in 1..Len(log[i].arg) : log[i].arg[n][2] = k}

\* C17: when the new reference of a dependency is a key of processed_libraries
\* already and its source is byte-identical to the recorded one,
\* process_dependency introspects nothing, copies nothing, enters no module,
\* issues no edit and leaves processed_libraries as it is, and it returns the
\* new reference: the calling module notes the pair for its change batch
\* whenever the new reference differs from the one it has.
C17_HitIsNoOp ==
    [][AtDependency /\ ~StartsWithSystemDir(CurrentDependency)
           /\ C17_Hit(locate_dependency(fs, rpaths, CurrentDependency))
       => C17_Step(CurrentDependency,
                   locate_dependency(fs, rpaths, CurrentDependency))]_vars

\* a successful run in which two modules had their reference to libA.dylib
\* rewritten while libA.dylib was introspected and copied once
C17_Witness ==
    /\ pc = "done"
    /\ Cardinality(C17_ChangesTo(rpA)) = 2
    /\ Cardinality(Copies(rpA)) = 1
    /\ Cardinality(Loads(rpA)) = 1

\* the new reference of the dependency d of a module of the executable under
\* way: "@rpath/" and the path of its source relative to the parent of its root
C18_New(d) == locate_dependency(fs0, rpaths, d).new_module_path
RECURSIVE C18_Pairs(_)
\* the pairs (old reference, new reference) of the non-system references of
\* ds whose new reference differs, in the order of ds
C18_Pairs(ds) ==
    IF ds = <<>> THEN <<>>
    ELSE (IF ~StartsWithSystemDir(Head(ds)) /\ C18_New(Head(ds)) # Head(ds)
          THEN <<<<Head(ds), C18_New(Head(ds))>>>> ELSE <<>>)
         \o C18_Pairs(Tail(ds))
\* the module on top has been through all its dependencies
C18_AtEnd == pc = "module" /\ Last(mods).i > Len(Last(mods).dependencies)
C18_Changes(t) == {i \in LogIdx : log[i].op = "change" /\ log[i].path = t}

\* C18: a call of process_module issues at most one change instruction on its
\* target, and only when it has been through all the module's dependencies:
\* the instruction holds exactly the pairs (old, new) of the module's
\* non-system dependencies whose new reference differs from the old one, in
\* the order of the dependency list; none is issued when there is no such
\* pair, and none for a module whose dependencies were not all processed.
C18_BatchedRewrite ==
    /\ [](\A i, j \in LogIdx :
            log[i].op = "change" /\ log[j].op = "change" /\ log[i].path = log[j].path
                => i = j)
    /\ [](\A n \in 1..Len(mods) :
            /\ mods[n].paths_to_change
                   = C18_Pairs(SubSeq(mods[n].dependencies, 1, mods[n].i - 1))
            /\ mods[n].i <= Len(mods[n].dependencies)
                   => C18_Changes(mods[n].target_module_path) = {})
    /\ [](\A i \in LogIdx : log[i].op = "change" => log[i].arg # <<>>)
    /\ [][C18_AtEnd =>
            log' = IF C18_Pairs(Last(mods).dependencies) = <<>> THEN log
                   ELSE Append(log, Event("change", Last(mods).target_module_path,
                                          NoRef, C18_Pairs(Last(mods).dependencies)))]_vars
    /\ [][Len(log') > Len(log) /\ log'[Len(log')].op = "change" => C18_AtEnd]_vars

\* a successful run in which one instruction rewrote two references of one
\* module
C18_Witness ==
    /\ pc = "done"
    /\ \E i \in LogIdx :
         /\ log[i].op = "change"
         /\ Len(log[i].arg) = 2
         /\ log[i].arg[1][1] # log[i].arg[2][1]

\* the root of the path p by the three rules: the parent if its name ends in
\* ".framework"; else the great-grandparent if the grandparent is named
\* "Versions" and the great-grandparent's name ends in ".framework"; else p
C19_Rule(p) ==
    IF Len(p) >= 2 /\ EndsWithFramework(p[Len(p) - 1]) THEN SubSeq(p, 1, Len(p) - 1)
    ELSE IF Len(p) >= 4 /\ p[Len(p) - 2] = "Versions"
                /\ EndsWithFramework(p[Len(p) - 3])
         THEN SubSeq(p, 1, Len(p) - 3)
    ELSE p

\* C19: for every resolved path find_dependency_root returns the root the
\* three rules give, the first rule before the second, and touches nothing.
C19_RootRules ==
    /\ fs = fs0
    /\ pc = "rooted" => dep.root = C19_Rule(dep.resolved)

\* the path of p relative to the parent of its root: the components of p
\* from the base name of the root on
C20_Relative(p) == SubSeq(p, Len(C19_Rule(p)), Len(p))
\* where the library bundled as k is in the output
C20_Place(k) == join(frameworks_path(out_path), Tail(k.comps))
\* the module of the instruction e is the library bundled as k, copied before
C20_OnLibrary(i, k) ==
    /\ log[i].path = C20_Place(k)
    /\ \E j \in 1..(i - 1) : log[j].op = "copy" /\ log[j].ref = k

\* C20: the new reference of a dependency that resolved to p is "@rpath/" and
\* the path of p relative to the parent of p's root; the root is copied to
\* Contents/Frameworks under its base name, after which the file at
\* Contents/Frameworks/<that relative path> exists; the library is walked at
\* that place, and its identity edit and every change edit on a module in
\* Contents/Frameworks are aimed at the place of a library copied before.
C20_NewReference ==
    /\ [](\A k \in Keys : k = RpathRef(C20_Relative(processed_libraries[k])))
    /\ [][/\ AtDependency /\ ~StartsWithSystemDir(CurrentDependency)
          /\ resolve(fs, rpaths, CurrentDependency) # NoPath
          /\ pc' # "failed"
          => /\ RpathRef(C20_Relative(resolve(fs, rpaths, CurrentDependency)))
                    \in DOMAIN processed_libraries'
             /\ pc' = "load" =>
                    dep'.new_module_path
                        = RpathRef(C20_Relative(resolve(fs, rpaths, CurrentDependency)))]_vars
    /\ [](\A i \in LogIdx :
            /\ log[i].op = "copy" =>
                 /\ log[i].ref \in Keys
                 /\ log[i].path = join(frameworks_path(out_path),
                                       <<file_name(C19_Rule(processed_libraries[log[i].ref]))>>)
                 /\ log[i].arg = canonicalize(fs0, C19_Rule(processed_libraries[log[i].ref]))
                 /\ is_file(fs, C20_Place(log[i].ref))
            /\ log[i].op = "otool" /\ log[i].ref # NoRef =>
                 log[i].arg = C20_Place(log[i].ref)
            /\ log[i].op = "id" => C20_OnLibrary(i, log[i].ref)
            /\ log[i].op = "change"
                    /\ starts_with(log[i].path, frameworks_path(out_path))
                 => \E k \in Keys : C20_OnLibrary(i, k))

\* a successful run that bundled a loose dylib as @rpath/libA.dylib and a
\* framework binary as @rpath/X.framework/Versions/A/X: both files are in
\* Contents/Frameworks and the dylib's identity was set there
C20_Witness ==
    /\ pc = "done"
    /\ rpA \in Keys
    /\ RpathRef(<<"X.framework", "Versions", "A", "X">>) \in Keys
    /\ is_file(fs, join(frameworks_path(out_path), <<"libA.dylib">>))
    /\ is_file(fs, join(frameworks_path(out_path), <<"X.framework", "Versions", "A", "X">>))
    /\ \E i \in LogIdx :
         /\ log[i].op = "id" /\ log[i].ref = rpA
         /\ log[i].path = join(frameworks_path(out_path), <<"libA.dylib">>)
\* ------------------------------------------------------------------ C21
\* the path the reference m names once its "@rpath" is the root r
C21_Substituted(m, r) ==
    IF m.abs THEN m.comps ELSE r \o SubSeq(m.comps, 2, Len(m.comps))
\* the places among the configured roots whose substituted path exists
C21_Yielding(m) ==
    {i \in 1..Len(rpaths) : exists(fs, C21_Substituted(m, rpaths[i]))}
\* the reference itself names an existing path
C21_Names(m) == m.abs /\ exists(fs, m.comps)

\* C21: PathResolver.resolve returns a reference that names an existing path
\* unchanged; otherwise it returns the substituted path of the first
\* configured root, in configuration order, whose substituted path exists,
\* whatever the later roots hold; if no root yields an existing path it
\* fails with the path-resolution error that carries the reference and all
\* the roots. Nothing else is changed by the call.
C21_Resolve ==
    /\ pc = "resolved" =>
         /\ dep.state = "resolved"
         /\ IF C21_Names(dep.dependency)
            THEN dep.resolved = dep.dependency.comps
            ELSE /\ C21_Yielding(dep.dependency) # {}
                 /\ \E i \in C21_Yielding(dep.dependency) :
                      /\ \A j \in C21_Yielding(dep.dependency) : i <= j
                      /\ dep.resolved = C21_Substituted(dep.dependency, rpaths[i])
    /\ pc = "failed" =>
         /\ err = "PathResolve"
         /\ ~C21_Names(dep.path)
         /\ C21_Yielding(dep.path) = {}
         /\ dep.rpaths = rpaths
    /\ pc \in {"resolved", "failed"} => fs = fs0

\* the first root has no libR.dylib, the second and the third have one: the
\* second root's is returned
C21_Witness ==
    /\ pc = "resolved"
    /\ ~dep.dependency.abs
    /\ Len(rpaths) = 3
    /\ C21_Yielding(dep.dependency) = {2, 3}
    /\ dep.resolved = rpaths[2] \o <<"libR.dylib">>

\* ------------------------------------------------------------------ C22
\* the file that was classified, and the answer is_executable_binary gave
C22_File == fs[ClassifiedPath]
C22_Answer == executables # <<>>

\* C22: is_linked_binary is false for every file shorter than 4 bytes; for
\* every file of 4 or more bytes, one of exactly 4 bytes included, it is true
\* exactly when the first 4 bytes are one of the four magic sequences; and
\* it changes nothing.
C22_LinkedBinary ==
    pc = "classified" =>
        /\ C22_File.size < 4 => ~C22_Answer
        /\ C22_File.size >= 4 =>
             (C22_Answer <=>
                 C22_File.head \in {<<202, 254, 186, 190>>, <<190, 186, 254, 202>>,
                                    <<254, 237, 250, 207>>, <<207, 250, 237, 254>>})
        /\ fs = fs0

\* ------------------------------------------------------------------ C23
\* the introspections of executables as roots of the dependency graph, in
\* the order they were made, and where in the output each of them points
C23_IsRootWalk(e) == e.op = "otool" /\ e.ref = NoRef
C23_RootWalks == SelectSeq(log, C23_IsRootWalk)
\* the regular files of the output that are linked binaries, outside of its
\* Contents/Frameworks
C23_OutputBinaries ==
    {q \in DOMAIN fs :
        /\ IsPrefix(out_path, q)
        /\ ~IsPrefix(frameworks_path(out_path), q)
        /\ fs[q].kind = "file"
        /\ is_executable_binary(fs[q])}
\* the step adds to executables one source entry whose file is a linked
\* binary and has just been copied to its place in the output
C23_Noted ==
    /\ pc = "copy"
    /\ Len(executables') = Len(executables) + 1
    /\ SubSeq(executables', 1, Len(executables)) = executables
    /\ exists(fs0, Last(executables'))
    /\ is_executable_binary(Bytes0(Last(executables')))
    /\ InOutput(Last(executables')) \notin DOMAIN fs
    /\ InOutput(Last(executables')) \in DOMAIN fs'
    /\ fs'[InOutput(Last(executables'))] = Bytes0(Last(executables'))

\* C23: executables is only extended during the tree copy, by one entry per
\* copied regular file that is classified as a linked binary; process_executable,
\* process_module and process_dependency leave it as it is; and perform walks
\* its entries as roots of the dependency graph in their order, each of them
\* exactly once by the time it returns Ok.
C23_ExecutablesFixed ==
    /\ [][executables' # executables => C23_Noted]_vars
    /\ [](pc = "executables" /\ log = <<>> =>
            /\ NoRep(executables)
            /\ {InOutput(e) : e \in Range(executables)} = C23_OutputBinaries)
    /\ [](TreeCopied \/ log # <<>> =>
            /\ Len(C23_RootWalks) <= Len(executables)
            /\ \A i \in 1..Len(C23_RootWalks) :
                 C23_RootWalks[i].arg = InOutput(executables[i])
            /\ Len(queue) + Len(C23_RootWalks) = Len(executables))
    /\ [](pc = "done" => Len(C23_RootWalks) = Len(executables))

\* a run that ended well on a bundle with two executables, each walked once
C23_Witness ==
    /\ pc = "done"
    /\ Len(executables) = 2
    /\ Len(C23_RootWalks) = 2
    /\ C23_RootWalks[1].arg # C23_RootWalks[2].arg
    /\ Keys # {}

\* ------------------------------------------------------------------ C24
\* the file that the walk recorded as log entry i introspected
C24_Walked(i) == Bytes0(log[i].path)

\* C24: whenever process_module works on a dynamic library, be it one reached
\* as a dependency or one the tree copy found and process_executable walks
\* as a root, the dependency list it goes through is the library's list
\* without the library's own install identity, so that identity is never
\* handed to process_dependency on the library's own account.
C24_OwnIdentityExcluded ==
    \A k \in 1..Len(mods) : \A i \in Walked :
        log[i].arg = mods[k].target_module_path
            => mods[k].dependencies = C24_Walked(i).deps

\* ------------------------------------------------------------------ C25
\* notarize_wait has returned
C25_Ended == pc \in {"done", "failed"}

\* C25: the wait polls the status at a fixed interval (one sleep of the
\* interval before every poll); it ends with success only after a poll
\* reported `success`, with a notarization failure as soon as a poll
\* reported `invalid`, and goes on after every other status; and a timeout
\* bounds it: the wait ends at some time, also when the status never becomes
\* final and no poll fails.
C25_PollingEnds ==
    /\ [][pc = "poll" /\ pc' # "poll" => notarization.slept = PollInterval]_vars
    /\ [](pc = "done" => notarization.status = "success")
    /\ [](err = "NotarizationFailure" => notarization.status = "invalid")
    /\ [][pc = "poll" /\ notarization'.status = "invalid"
            => pc' = "failed" /\ err' = "NotarizationFailure"]_vars
    /\ [][(/\ pc = "poll" /\ pc' \notin {"poll", "failed"}
           /\ notarization'.status \notin {"success", "invalid"})
            => pc' = "sleep"]_vars
    /\ <>C25_Ended

\* ------------------------------------------------------------------ C26
\* the output bundle <out_dir>/<source_basename>
C26_Output == join(options.out_dir, <<file_name(options.source_path)>>)
\* what the run wrote or had a tool edit: the entries of the log but the
\* reads (a resolution, an introspection)
C26_Writes == {i \in LogIdx : log[i].op \notin {"resolve", "otool"}}

\* C26: every change of the filesystem and every link-edit instruction of a
\* run is at a path inside the output bundle; the source bundle, and every
\* place outside the output bundle that a dependency or a symbolic link
\* resolves to, is as it was when perform was called.
C26_SourceReadOnly ==
    /\ \A p \in DOMAIN fs0 :
         IsPrefix(options.source_path, p) \/ ~IsPrefix(C26_Output, p)
             => p \in DOMAIN fs /\ fs[p] = fs0[p]
    /\ \A p \in DOMAIN fs :
         p \notin DOMAIN fs0 \/ fs[p] # fs0[p] => IsPrefix(C26_Output, p)
    /\ \A i \in C26_Writes : IsPrefix(C26_Output, log[i].path)

\* ------------------------------------------------------------------ C27
\* the link edits of the log, those on the module at the output path t, and
\* the introspections of the module that lies at t in the output
C27_IsEdit(e) == e.op \in {"id", "change", "add_rpath"}
C27_EditsOn(t) == {i \in LogIdx : C27_IsEdit(log[i]) /\ log[i].path = t}
C27_WalksOf(t) == {i \in Walked : log[i].arg = t}
\* the libraries first bundled between the log entries m and x: the
\* introspections of a dependency whose copy lies between the two
C27_BundledBetween(m, x) ==
    {l \in Walked :
        /\ log[l].ref # NoRef
        /\ m < l
        /\ \E c \in Copies(log[l].ref) : l < c /\ c < x}

\* C27: a link edit is issued only on a file that is in the output bundle
\* already. A library D is recorded and copied before any of its own
\* dependencies is processed; D's change batch comes before D's identity
\* edit; both come before the change batch and the add-rpath edit of the
\* module M during whose walk D was first bundled; and the add-rpath edit
\* of an executable is the last thing done for it. Members of a dependency
\* cycle are no exception.
C27_EditOrdering ==
    /\ [][\A i \in (Len(log) + 1)..Len(log') :
            C27_IsEdit(log'[i]) =>
                /\ is_file(fs, log'[i].path)
                /\ IsPrefix(out_path, log'[i].path)]_vars
    /\ [](\A c \in LogIdx : log[c].op = "copy" =>
            /\ log[c].ref \in Keys
            /\ \E l \in Loads(log[c].ref) :
                 /\ l < c
                 /\ \A j \in (l + 1)..(c - 1) : log[j].op = "mkdir")
    /\ [](\A l \in Walked : log[l].ref # NoRef =>
            \A x \in C27_EditsOn(log[l].arg) :
                /\ \E c \in Copies(log[l].ref) : c < x
                /\ \A y \in C27_EditsOn(log[l].arg) :
                     log[y].op = "change" /\ log[x].op = "id" => y < x)
    /\ [](\A m \in Walked : \A x \in C27_EditsOn(log[m].arg) :
            m < x /\ log[x].op \in {"change", "add_rpath"} =>
                \A l \in C27_BundledBetween(m, x) :
                    \A y \in C27_EditsOn(log[l].arg) : y < x)
    /\ [](\A y \in LogIdx : log[y].op = "add_rpath" =>
            /\ \A x \in C27_EditsOn(log[y].path) : x <= y
            /\ y < Len(log) => C23_IsRootWalk(log[y + 1]))

\* a run that ended well on a bundle whose libraries depend on each other:
\* both were copied, both had their references changed and their identity
\* set, and the executable that led to them was changed after all of that
C27_Witness ==
    /\ pc = "done"
    /\ \E l1, l2 \in Walked :
         /\ log[l1].ref # NoRef /\ log[l2].ref # NoRef
         /\ \E x \in C27_EditsOn(log[l1].arg) :
              log[x].op = "change" /\ l2 \in C27_BundledBetween(l1, x)
         /\ \E x \in C27_EditsOn(log[l2].arg) :
              /\ log[x].op = "change"
              /\ \E p \in Range(log[x].arg) : p[2] = log[l1].ref
         /\ \E x1 \in C27_EditsOn(log[l1].arg), x2 \in C27_EditsOn(log[l2].arg) :
              log[x1].op = "id" /\ log[x2].op = "id" /\ x2 < x1
    /\ \E y \in LogIdx : log[y].op = "add_rpath"

\* ------------------------------------------------------------------ C28
\* where the root of the dependency under way is about to be copied to
C28_CopyTarget == join(frameworks_path(out_path), <<file_name(dep.root)>>)

\* C28: a root is never copied onto an entry that Contents/Frameworks holds
\* already: when process_dependency comes to copy a root, nothing is at the
\* root's place in Contents/Frameworks, and no run fails in that copy
\* because its target exists; so two references into one framework root
\* lead to one copy of the framework and to a run that goes on.
C28_OneCopyPerRoot ==
    /\ pc = "bundle" => ~lexists(fs, C28_CopyTarget)
    /\ pc = "failed" /\ err = "Copy" /\ dep # NoDep =>
         ~lexists(fs0, C28_CopyTarget) /\ ~lexists(fs, C28_CopyTarget)

\* ------------------------------------------------------------------ C29
\* C29: for a given source bundle and given libraries, every run of perform
\* ends the same way, in whatever order the executables are found and
\* processed: a run returns Ok exactly if the run before it on the same
\* inputs did, and then with the same keys in processed_libraries and the
\* same roots in Contents/Frameworks. (A run in which an external tool fails
\* is left aside: that is no matter of the order.)
C29_Now == Outcome(TRUE, err, processed_libraries, fs, out_path)
C29_OrderIndependent ==
    (/\ previous.ended
     /\ pc \in {"done", "failed"}
     /\ "ToolError" \notin {err, previous.err})
        => /\ (previous.err = "") = (err = "")
           /\ previous.keys = C29_Now.keys
           /\ previous.roots = C29_Now.roots


\* C30: find_dependency_root is total and answers an ancestor-or-self: for
\* every absolute resolved path of at least one component it returns without
\* aborting, and the root returned is the path or one of its ancestors and
\* is not the filesystem root, so that the path relative to the root's
\* parent is defined.
C30_RootTotal ==
    pc = "rooted" =>
        /\ dep.root # Panic
        /\ IsPrefix(dep.root, dep.resolved)
        /\ parent(dep.root) # NoPath

====
